---- MODULE Spec2Model ----
(***************************************************************************)
(* A model of TrapSystem.js: the trap descriptor life cycle, the lock      *)
(* registry with its delayed relocation callback, the movement detector    *)
(* and the skill-check resolution pipeline.                                *)
(*                                                                         *)
(* Pixels are integers.  Token sizes are multiples of 20 and even, so that *)
(* width/2 and the 5% margin of checkLineIntersection are exact, and the   *)
(* moves that are drawn are axis-parallel, so that the intersection points *)
(* of lineIntersection are exact too.  Chat output and the bar1 fields of  *)
(* a token are written by the code and never read: they are left out.      *)
(***************************************************************************)
EXTENDS Integers, Sequences, FiniteSets, TLC

\* ---------------------------------------------------------------- bounds
MaxUses == 2
\* The relocation callbacks one token can have pending.
MaxTimers == 1

\* ------------------------------------------------------------- constants
DEFAULT_GRID_SIZE == 70
MAX_SEARCH_RINGS_GLOBAL == 5

\* -------------------------------------------------------------- universe
Traps == {"t1"}
Movers == {"e1"}
\* The order in which findObjs lists the tokens of the page.
TokenOrder == <<"t1", "t2", "e1", "e2">>
Players == {"gm", "p1", "p2"}
Characters == {"c1", "c2"}
CharOrder == <<"c1", "c2">>
ExistingMacros == {"MacroA", "MacroS", "MacroF"}
MacroNames == {"MacroA", "Missing"}
None == "none"
Undefined == "undefined"
Null == "null"
\* The keys of pendingChecks and displayDCForCheck: a player id, or the
\* string a missing playerid field turns into when it is used as a key.
PlayerKeys == Players \cup {Undefined}

Pt(x, y) == [x |-> x, y |-> y]
\* Where a token is dropped: left of the trap, on it and right of it.
Cells == {Pt(35, 175), Pt(105, 175), Pt(245, 175)}

Min(a, b) == IF a < b THEN a ELSE b
Max(a, b) == IF a > b THEN a ELSE b
Abs(a) == IF a < 0 THEN -a ELSE a
\* The element of a one-element set: Only({F(x) : x \in {e}}) is F(e) with
\* e evaluated once.
Only(S) == CHOOSE x \in S : TRUE
ExactDiv(n, d) == IF d < 0 THEN (-n) \div (-d) ELSE n \div d

VARIABLES
    gmnotes,          \* token id -> its gmnotes (NoNotes: no marker), for the
                      \* tokens that are or may become traps
    aura,             \* the same token ids -> aura1_color
    pos,              \* mover id -> [x, y], the token's left/top
    lockedTokens,     \* mover id -> lock record or None
    lockOrder,        \* the keys of lockedTokens in insertion order
    lockTag,          \* mover id -> trap id of its {!traplocked} tag, or None
    safeMoveTokens,   \* set of mover ids
    triggersEnabled,  \* the global toggle
    timers,           \* pending setTimeout callbacks, in firing order
    statusmarkers,    \* token id -> TRUE iff its status markers include "blue"
    pendingChecks,        \* player id -> pending check object, or NoCheck
    pendingChecksByChar,  \* character id -> pending check object, or NoCheck
    displayDCForCheck,    \* player id -> the "reveal DC" flag
    last              \* what the last handler did

coreVars == <<gmnotes, aura, pos, lockedTokens, lockOrder, lockTag,
              safeMoveTokens, triggersEnabled, timers, statusmarkers>>
checkVars == <<pendingChecks, pendingChecksByChar, displayDCForCheck>>
vars == <<coreVars, checkVars, last>>

\* ------------------------------------------------------ trap descriptor
\* The gmnotes of a trap token, field by field as setupTrap and
\* setupInteractionTrap write them.  NoNotes is a token without the marker.
NoNotes == [marker |-> FALSE]
StealthCheck == <<[type |-> "Stealth", dc |-> 15]>>

\* setupTrap: "{!traptrigger uses: N/N armed: on primary: ... [position: ...]}"
StandardNotes(uses, movement) ==
    [marker |-> TRUE, cur |-> uses, max |-> uses, armed |-> "on",
     type |-> "standard",
     position |-> CASE movement = "Center" -> "center"
                    [] movement = "Grid" -> "cell00"
                    [] OTHER -> None,
     noMove |-> FALSE, success |-> None, failure |-> None, checks |-> <<>>]

\* setupInteractionTrap: "... type: interaction ... success: S failure: F
\* [checks: "..."] [{noMovementTrigger}]}"
InteractionNotes(uses, checks, movementTriggerEnabled) ==
    [marker |-> TRUE, cur |-> uses, max |-> uses, armed |-> "on",
     type |-> "interaction", position |-> None,
     noMove |-> ~movementTriggerEnabled,
     success |-> "MacroS", failure |-> "MacroF", checks |-> checks]

\* The same descriptor naming other success and failure macros.
InteractionNotesWith(uses, checks, movementTriggerEnabled, successMacro, failureMacro) ==
    [InteractionNotes(uses, checks, movementTriggerEnabled)
        EXCEPT !.success = successMacro, !.failure = failureMacro]

\* parseTrapNotes without its aura side effect; NoData is its null.
NoData == [valid |-> FALSE]
parseTrapNotes(n) ==
    IF ~n.marker THEN NoData
    ELSE [valid |-> TRUE, currentUses |-> n.cur, maxUses |-> n.max,
          isArmed |-> (n.armed # "off"),
          type |-> n.type, position |-> n.position,
          movementTriggerEnabled |-> ~n.noMove,
          success |-> n.success, failure |-> n.failure, checks |-> n.checks]

\* The colour an armed flag and a number of uses give under the toggle.
AuraFor(isArmed, uses, enabled) ==
    IF isArmed /\ uses > 0
    THEN (IF enabled THEN "ARMED" ELSE "PAUSED")
    ELSE "DISARMED"

\* The aura parseTrapNotes(notes, token) leaves on the token.
ParseAura(n, old, enabled) ==
    IF ~n.marker THEN old
    ELSE AuraFor(n.armed # "off", n.cur, enabled)

\* updateTrapUses: the notes it writes.  newArmed is "on" (true), "off"
\* (false) or "null" (no override: the armed field is left as it is).
UpdateNotes(n, current, max, newArmed) ==
    IF ~n.marker THEN n
    ELSE [n EXCEPT !.cur = current, !.max = max,
                   !.armed = IF newArmed = "null" THEN @ ELSE newArmed]

\* updateTrapUses: the aura it sets, from the notes it has just written.
UpdateAura(n, old, current, newArmed, enabled) ==
    IF ~n.marker THEN old
    ELSE AuraFor(IF newArmed = "null" THEN n.armed = "on"
                 ELSE newArmed = "on",
                 current, enabled)

\* executeMacro: TRUE iff the macro exists and has an action (its commands
\* are sent to chat); a macro that is not found, has no action or throws
\* gives FALSE.
executeMacro(m) == m \in ExistingMacros

NoLock == [locked |-> FALSE]
NoCheck == [present |-> FALSE]

\* What the last handler did: its name, the token or player it was called
\* for, whether it took effect and the macro it ran; a roll adds how
\* handleRollResult ended, the character id the roll came with, the
\* pending check it resolved and the final roll it compared with the DC.
DidRoll(op, id, ran, out, char, res, final) ==
    [op |-> op, id |-> id, hit |-> (out = "resolved"), ran |-> ran,
     out |-> out, char |-> char, res |-> res, final |-> final]
Did(op, id, hit, ran) ==
    [op |-> op, id |-> id, hit |-> hit, ran |-> ran,
     out |-> None, char |-> None, res |-> NoCheck,
     final |-> [k |-> "undefined", v |-> 0]]
NoLast == Did("init", None, FALSE, None)

\* -------------------------------------------------------------- geometry
\* A trap token covers 2 x 2 cells with its centre at (140, 140), a second
\* one lies four cells to its right; a moving token covers one cell, also
\* when it has been made a trap.
TrapTok(t) ==
    IF t \in DOMAIN pos
    THEN [left |-> pos[t].x, top |-> pos[t].y, width |-> 70, height |-> 70]
    ELSE IF t = "t2"
    THEN [left |-> 420, top |-> 140, width |-> 140, height |-> 140]
    ELSE [left |-> 140, top |-> 140, width |-> 140, height |-> 140]
MoverTok(p) == [left |-> p.x, top |-> p.y, width |-> 70, height |-> 70]

\* getTokenGridCoords: Math.round(v) is floor(v + 1/2), Math.ceil(a/b) is
\* -floor(-a/b).
getTokenGridCoords(tok) ==
    LET g == DEFAULT_GRID_SIZE
    IN  [x |-> (2 * tok.left - tok.width + g) \div (2 * g),
         y |-> (2 * tok.top - tok.height + g) \div (2 * g),
         width |-> -((-tok.width) \div g),
         height |-> -((-tok.height) \div g),
         gridSize |-> g,
         pixelX |-> tok.left, pixelY |-> tok.top,
         tokenWidth |-> tok.width, tokenHeight |-> tok.height]

\* An overlap test that wants more than 5%.
checkGridOverlap_Above(t1, t2) ==
    LET c1 == getTokenGridCoords(t1)
        c2 == getTokenGridCoords(t2)
        xO == Max(0, Min(2 * c1.pixelX + c1.tokenWidth,
                         2 * c2.pixelX + c2.tokenWidth)
                     - Max(2 * c1.pixelX - c1.tokenWidth,
                           2 * c2.pixelX - c2.tokenWidth))
        yO == Max(0, Min(2 * c1.pixelY + c1.tokenHeight,
                         2 * c2.pixelY + c2.tokenHeight)
                     - Max(2 * c1.pixelY - c1.tokenHeight,
                           2 * c2.pixelY - c2.tokenHeight))
    IN  xO * yO * 100 > 5 * 4 * c1.tokenWidth * c1.tokenHeight

\* checkGridOverlap, in doubled pixels: overlapArea / area1 * 100 >= 5.
checkGridOverlap(t1, t2) ==
    LET c1 == getTokenGridCoords(t1)
        c2 == getTokenGridCoords(t2)
        xO == Max(0, Min(2 * c1.pixelX + c1.tokenWidth,
                         2 * c2.pixelX + c2.tokenWidth)
                     - Max(2 * c1.pixelX - c1.tokenWidth,
                           2 * c2.pixelX - c2.tokenWidth))
        yO == Max(0, Min(2 * c1.pixelY + c1.tokenHeight,
                         2 * c2.pixelY + c2.tokenHeight)
                     - Max(2 * c1.pixelY - c1.tokenHeight,
                           2 * c2.pixelY - c2.tokenHeight))
    IN  xO * yO * 100 >= 5 * 4 * c1.tokenWidth * c1.tokenHeight

NoPoint == [hit |-> FALSE]
Hit(x, y) == [hit |-> TRUE, x |-> x, y |-> y]

\* lineIntersection: t and u are tn/denom and un/denom.
lineIntersection(x1, y1, x2, y2, x3, y3, x4, y4) ==
    LET denom == (x1 - x2) * (y3 - y4) - (y1 - y2) * (x3 - x4)
        tn == (x1 - x3) * (y3 - y4) - (y1 - y3) * (x3 - x4)
        un == -((x1 - x2) * (y1 - y3) - (y1 - y2) * (x1 - x3))
        In01(n) == IF denom > 0 THEN 0 <= n /\ n <= denom
                   ELSE denom <= n /\ n <= 0
    IN  IF denom = 0 THEN NoPoint
        ELSE IF In01(tn) /\ In01(un)
        THEN Hit(x1 + ExactDiv(tn * (x2 - x1), denom),
                 y1 + ExactDiv(tn * (y2 - y1), denom))
        ELSE NoPoint

Dist2(ax, ay, bx, by) == (ax - bx) * (ax - bx) + (ay - by) * (ay - by)

\* The first element of a non-empty sequence of points nearest (sx, sy):
\* the reduce of checkLineIntersection replaces only on strictly less.
RECURSIVE Closest(_, _, _)
Closest(pts, sx, sy) ==
    IF Len(pts) = 1 THEN pts[1]
    ELSE LET c == Closest(SubSeq(pts, 1, Len(pts) - 1), sx, sy)
             cur == pts[Len(pts)]
         IN  IF Dist2(cur.x, cur.y, sx, sy) < Dist2(c.x, c.y, sx, sy)
             THEN cur ELSE c

\* The trap's rectangle widened by the margin: 0.05 = 1/20 of the smaller
\* side.
MarginRect(trapTok) ==
    LET coords == getTokenGridCoords(trapTok)
        margin == Min(coords.tokenWidth, coords.tokenHeight) \div 20
    IN  [left |-> coords.pixelX - coords.tokenWidth \div 2 - margin,
         right |-> coords.pixelX + coords.tokenWidth \div 2 + margin,
         top |-> coords.pixelY - coords.tokenHeight \div 2 - margin,
         bottom |-> coords.pixelY + coords.tokenHeight \div 2 + margin,
         gridSize |-> coords.gridSize]

\* The four sides of the rectangle in the order they are tested.
RectLines(r) ==
    << <<r.left, r.top, r.right, r.top>>,
       <<r.right, r.top, r.right, r.bottom>>,
       <<r.right, r.bottom, r.left, r.bottom>>,
       <<r.left, r.bottom, r.left, r.top>> >>

\* The intersections of the path with the sides, in the order of the sides.
PathIntersections(startX, startY, endX, endY, r) ==
    LET all == [k \in 1..4 |->
                  Only({lineIntersection(startX, startY, endX, endY,
                                         l[1], l[2], l[3], l[4])
                        : l \in {RectLines(r)[k]}})]
    IN  SelectSeq(all, LAMBDA i : i.hit)

\* A test that takes the sides of the widened rectangle for outside.
checkLineIntersectionIn_Open(startX, startY, endX, endY, r) ==
    LET isInside(x, y) == /\ x > r.left /\ x < r.right
                          /\ y > r.top /\ y < r.bottom
    IN  IF 25 * Dist2(endX, endY, startX, startY) < r.gridSize * r.gridSize
        THEN NoPoint
        ELSE IF isInside(startX, startY) THEN Hit(startX, startY)
        ELSE IF isInside(endX, endY) THEN Hit(endX, endY)
        ELSE Only({IF Len(intersections) = 0 THEN NoPoint
                   ELSE Closest(intersections, startX, startY)
                   : intersections \in
                       {PathIntersections(startX, startY, endX, endY, r)}})

\* checkLineIntersection on the widened rectangle r.
checkLineIntersectionIn(startX, startY, endX, endY, r) ==
    LET isInside(x, y) == /\ x >= r.left /\ x <= r.right
                          /\ y >= r.top /\ y <= r.bottom
    IN  IF 25 * Dist2(endX, endY, startX, startY) < r.gridSize * r.gridSize
        THEN NoPoint
        ELSE IF isInside(startX, startY) THEN Hit(startX, startY)
        ELSE IF isInside(endX, endY) THEN Hit(endX, endY)
        ELSE Only({IF Len(intersections) = 0 THEN NoPoint
                   ELSE Closest(intersections, startX, startY)
                   : intersections \in
                       {PathIntersections(startX, startY, endX, endY, r)}})

\* checkLineIntersection: MIN_MOVEMENT_FACTOR is 0.2 = 1/5.
checkLineIntersection(startX, startY, endX, endY, trapTok) ==
    Only({checkLineIntersectionIn(startX, startY, endX, endY, r)
          : r \in {MarginRect(trapTok)}})


\* --------------------------------------------------- placement resolver
\* A search that goes through a ring row by row.
RingOffsets_ByRow(r) ==
    LET n == 2 * r + 1
        sq == [k \in 1..(n * n) |-> [dx |-> ((k - 1) % n) - r,
                                     dy |-> ((k - 1) \div n) - r]]
    IN  SelectSeq(sq, LAMBDA o : Abs(o.dx) = r \/ Abs(o.dy) = r)

\* One square ring of cell offsets in the order of the nested loops
\* (outer loop dCol/dx, inner loop dRow/dy, cells off the ring skipped).
RingOffsets(r) ==
    LET n == 2 * r + 1
        sq == [k \in 1..(n * n) |-> [dx |-> ((k - 1) \div n) - r,
                                     dy |-> ((k - 1) % n) - r]]
    IN  SelectSeq(sq, LAMBDA o : Abs(o.dx) = r \/ Abs(o.dy) = r)

RECURSIVE Rings(_)
Rings(n) == IF n = 0 THEN <<>> ELSE Rings(n - 1) \o RingOffsets(n)

\* The 8 neighbours tried by handleIntersectionFallbackPlacement, in order.
adjacentOffsets ==
    << [dx |-> 1, dy |-> 0], [dx |-> -1, dy |-> 0],
       [dx |-> 0, dy |-> 1], [dx |-> 0, dy |-> -1],
       [dx |-> 1, dy |-> 1], [dx |-> -1, dy |-> -1],
       [dx |-> 1, dy |-> -1], [dx |-> -1, dy |-> 1] >>

CellPx(c) == c * DEFAULT_GRID_SIZE + DEFAULT_GRID_SIZE \div 2

\* getOccupiedPixelPositions: where the other tokens locked by trap t are now.
OccupiedBy(moved, t) ==
    {pos[e] : e \in {m \in DOMAIN lockedTokens : /\ lockedTokens[m].locked
                                    /\ lockedTokens[m].trapToken = t
                                    /\ m # moved}}

\* isPixelPosOccupied: nearer than half a grid cell to an occupied position.
isPixelPosOccupied(x, y, occ) ==
    \E o \in occ : 4 * Dist2(o.x, o.y, x, y)
                     < DEFAULT_GRID_SIZE * DEFAULT_GRID_SIZE

\* The first cell of cands that is not occupied, else dflt.
FirstFree(cands, occ, dflt) ==
    LET free == {k \in 1..Len(cands) :
                   ~isPixelPosOccupied(cands[k].x, cands[k].y, occ)}
    IN  IF free = {} THEN dflt
        ELSE cands[CHOOSE k \in free : \A j \in free : k <= j]

\* The cells of the trap's footprint at the offsets offs from (relX, relY).
InFootprint(tc, relX, relY, offs) ==
    LET inside == SelectSeq(offs, LAMBDA o :
                     /\ relX + o.dx >= 0 /\ relX + o.dx < tc.width
                     /\ relY + o.dy >= 0 /\ relY + o.dy < tc.height)
    IN  [k \in 1..Len(inside) |->
           Pt(CellPx(tc.x + relX + inside[k].dx),
              CellPx(tc.y + relY + inside[k].dy))]

handleIntersectionFallbackPlacement(base, tc, occ) ==
    LET g == DEFAULT_GRID_SIZE
        relX == Min(Max(0, (base.x - tc.x * g) \div g), tc.width - 1)
        relY == Min(Max(0, (base.y - tc.y * g) \div g), tc.height - 1)
        primary == Pt(CellPx(tc.x + relX), CellPx(tc.y + relY))
    IN  IF isPixelPosOccupied(primary.x, primary.y, occ)
        THEN FirstFree(InFootprint(tc, relX, relY, adjacentOffsets),
                       occ, primary)
        ELSE primary

\* calculateTrapPosition: the final resting point (its "initial" point is
\* the intersection itself).  Math.round(v - 0.5) is floor(v).
calculateTrapPosition(moved, t, intersection) ==
    LET tok == TrapTok(t)
        tc == getTokenGridCoords(tok)
        g == tc.gridSize
        d == parseTrapNotes(gmnotes[t])
        occ == OccupiedBy(moved, t)
        col == tok.left \div g
        row == tok.top \div g
        centre == Pt(CellPx(col), CellPx(row))
        ringCells == LET offs == Rings(MAX_SEARCH_RINGS_GLOBAL)
                     IN  [k \in 1..Len(offs) |->
                            Pt(CellPx(col + offs[k].dx),
                               CellPx(row + offs[k].dy))]
        relX == Min(Max(0, 0), tc.width - 1)
        relY == Min(Max(0, 0), tc.height - 1)
        fixed == Pt(CellPx(tc.x + relX), CellPx(tc.y + relY))
    IN  IF d.valid /\ d.position = "center"
        THEN (IF isPixelPosOccupied(centre.x, centre.y, occ)
              THEN FirstFree(ringCells, occ, centre) ELSE centre)
        ELSE IF d.valid /\ d.position = "cell00"
        THEN (IF isPixelPosOccupied(fixed.x, fixed.y, occ)
              THEN FirstFree(InFootprint(tc, relX, relY,
                                         Rings(Max(tc.width, tc.height))),
                             occ, fixed)
              ELSE fixed)
        ELSE handleIntersectionFallbackPlacement(intersection, tc, occ)


\* ------------------------------------------------------------------ Init
Init ==
    /\ gmnotes = [t \in Traps |-> NoNotes]
    /\ aura = [t \in Traps |-> None]
    /\ pos = [e \in Movers |-> Pt(35, 175)]
    /\ lockedTokens = [e \in Movers |-> NoLock]
    /\ lockOrder = <<>>
    /\ lockTag = [e \in Movers |-> None]
    /\ safeMoveTokens = {}
    /\ triggersEnabled = TRUE
    /\ timers = <<>>
    /\ statusmarkers = [e \in Movers |-> FALSE]
    /\ pendingChecks = [p \in PlayerKeys |-> NoCheck]
    /\ pendingChecksByChar = [c \in Characters |-> NoCheck]
    /\ displayDCForCheck = [p \in PlayerKeys |-> FALSE]
    /\ last = NoLast

\* ------------------------------------------------------- trap life cycle
\* !trapsystem setup: the selected token becomes a standard trap.
SetupTrap(t, uses, movement) ==
    /\ gmnotes' = [gmnotes EXCEPT ![t] = StandardNotes(uses, movement)]
    /\ aura' = [aura EXCEPT ![t] =
                  ParseAura(gmnotes'[t], "ARMED", triggersEnabled)]
    /\ last' = Did("setupTrap", t, TRUE, None)
    /\ UNCHANGED <<pos, lockedTokens, lockOrder, lockTag, safeMoveTokens,
                   triggersEnabled, timers,
                   checkVars, statusmarkers>>

\* !trapsystem toggle
toggleTrap(t) ==
    LET d == parseTrapNotes(gmnotes[t])
        newArmedState == ~d.isArmed
        newUses == IF newArmedState /\ d.currentUses <= 0 THEN 1
                   ELSE d.currentUses
    IN  /\ d.valid
        /\ gmnotes' = [gmnotes EXCEPT ![t] =
                         UpdateNotes(@, newUses, d.maxUses,
                                     IF newArmedState THEN "on" ELSE "off")]
        /\ aura' = [aura EXCEPT ![t] =
                      AuraFor(newArmedState, newUses, triggersEnabled)]
        /\ last' = Did("toggleTrap", t, TRUE, None)
        /\ UNCHANGED <<pos, lockedTokens, lockOrder, lockTag, safeMoveTokens,
                       triggersEnabled, timers,
                   checkVars, statusmarkers>>

\* A toggle that arms and disarms the traps themselves.
SetTriggers_Arming(on) ==
    /\ triggersEnabled' = on
    /\ gmnotes' = [t \in DOMAIN gmnotes |->
                     UpdateNotes(gmnotes[t], gmnotes[t].cur, gmnotes[t].max,
                                 IF on THEN "on" ELSE "off")]
    /\ aura' = [t \in DOMAIN aura |-> ParseAura(gmnotes'[t], aura[t], on)]
    /\ last' = Did(IF on THEN "enableTriggers" ELSE "disableTriggers",
                   None, TRUE, None)
    /\ UNCHANGED <<pos, lockedTokens, lockOrder, lockTag,
                   safeMoveTokens, timers,
                   checkVars, statusmarkers>>

\* !trapsystem enable / disable: every trap's aura is re-derived.
SetTriggers(on) ==
    /\ triggersEnabled' = on
    /\ aura' = [t \in DOMAIN aura |-> ParseAura(gmnotes[t], aura[t], on)]
    /\ last' = Did(IF on THEN "enableTriggers" ELSE "disableTriggers",
                   None, TRUE, None)
    /\ UNCHANGED <<gmnotes, pos, lockedTokens, lockOrder, lockTag,
                   safeMoveTokens, timers,
                   checkVars, statusmarkers>>
enableTriggers == SetTriggers(TRUE)
disableTriggers == SetTriggers(FALSE)


\* setupInteractionTrap with one check: the descriptor lists the check as
\* "check1Type:check1DC".
setupInteractionTrap(t, uses, check1Type, check1DC, movementTriggerEnabled) ==
    /\ gmnotes' = [gmnotes EXCEPT ![t] =
                     InteractionNotes(uses, <<[type |-> check1Type, dc |-> check1DC]>>,
                                      movementTriggerEnabled)]
    /\ aura' = [aura EXCEPT ![t] =
                  ParseAura(gmnotes'[t], "ARMED", triggersEnabled)]
    /\ last' = Did("setupInteractionTrap", t, TRUE, None)
    /\ UNCHANGED <<pos, lockedTokens, lockOrder, lockTag, safeMoveTokens,
                   triggersEnabled, timers,
                   checkVars, statusmarkers>>

\* !trapsystem setupinteraction with the Stealth check.
SetupInteractionTrap(t, uses, movementTriggerEnabled) ==
    setupInteractionTrap(t, uses, StealthCheck[1].type, StealthCheck[1].dc,
                         movementTriggerEnabled)

\* A decrement that leaves the trap armed when its last use is spent.
DecrementNotes_StaysArmed(n, uses, max) ==
    UpdateNotes(n, Max(0, uses - 1), max, "on")

\* The decrement shared by handleInteraction, handleAllowAction and
\* handleRollResult: newUses = max(0, uses - 1), written with armed forced
\* off at 0 and forced on above 0.
DecrementNotes(n, uses, max) ==
    LET newUses == Max(0, uses - 1)
    IN  IF newUses <= 0 THEN UpdateNotes(n, 0, max, "off")
        ELSE UpdateNotes(n, newUses, max, "on")

\* !trapsystem manualtrigger <trap> <macro>
manualMacroTrigger(t, macroName) ==
    LET d == parseTrapNotes(gmnotes[t])
        ok == d.valid /\ d.isArmed /\ d.currentUses > 0
        macroExecuted == ok /\ executeMacro(macroName)
        newUses == d.currentUses - 1
        n1 == UpdateNotes(gmnotes[t], newUses, d.maxUses, "null")
    IN  /\ gmnotes' = IF macroExecuted THEN [gmnotes EXCEPT ![t] = n1]
                      ELSE gmnotes
        /\ aura' = [aura EXCEPT ![t] =
                      IF macroExecuted
                      THEN (IF newUses <= 0 THEN "DISARMED"
                            ELSE UpdateAura(n1, @, newUses, "null",
                                            triggersEnabled))
                      ELSE ParseAura(gmnotes[t], @, triggersEnabled)]
        /\ last' = Did("manualMacroTrigger", t, ok,
                       IF macroExecuted THEN macroName ELSE None)
        /\ UNCHANGED <<pos, lockedTokens, lockOrder, lockTag, safeMoveTokens,
                       triggersEnabled, timers,
                   checkVars, statusmarkers>>

\* !trapsystem interact <trap> trigger|fail.  A token that is no trap is
\* left alone; a trap of another type only has its aura re-derived.
handleInteraction(t, action) ==
    LET config == parseTrapNotes(gmnotes[t])
        ok == config.type = "interaction"
        n1 == DecrementNotes(gmnotes[t], config.currentUses, config.maxUses)
    IN  /\ action \in {"trigger", "fail"}
        /\ config.valid
        /\ gmnotes' = IF ok THEN [gmnotes EXCEPT ![t] = n1] ELSE gmnotes
        /\ aura' = [aura EXCEPT ![t] =
                      ParseAura(gmnotes'[t], @, triggersEnabled)]
        /\ last' = Did("handleInteraction", t, ok,
                       IF ok /\ config.failure # None
                          /\ executeMacro(config.failure)
                       THEN config.failure ELSE None)
        /\ UNCHANGED <<pos, lockedTokens, lockOrder, lockTag, safeMoveTokens,
                       triggersEnabled, timers,
                   checkVars, statusmarkers>>

\* !trapsystem allow <trap> <player>
handleAllowAction(t) ==
    LET trapData == parseTrapNotes(gmnotes[t])
        ok == trapData.valid
        n1 == DecrementNotes(gmnotes[t], trapData.currentUses, trapData.maxUses)
    IN  /\ ok
        /\ gmnotes' = [gmnotes EXCEPT ![t] = n1]
        /\ aura' = [aura EXCEPT ![t] = AuraFor(TRUE, n1.cur, triggersEnabled)]
        /\ last' = Did("handleAllowAction", t, TRUE,
                       IF trapData.success # None /\ executeMacro(trapData.success)
                       THEN trapData.success ELSE None)
        /\ UNCHANGED <<pos, lockedTokens, lockOrder, lockTag, safeMoveTokens,
                       triggersEnabled, timers,
                   checkVars, statusmarkers>>

\* ---------------------------------------------------------- lock registry
\* The part of the state allowMovement works on.
World == [gmnotes |-> gmnotes, aura |-> aura, lockedTokens |-> lockedTokens,
          lockOrder |-> lockOrder, lockTag |-> lockTag,
          safeMoveTokens |-> safeMoveTokens]

\* A release that forgets "if(!lockData) return": a token without a lock is
\* given a free move all the same.
allowMovementOn_Unguarded(w, id) ==
    [w EXCEPT !.lockedTokens = [@ EXCEPT ![id] = NoLock],
              !.lockOrder = SelectSeq(@, LAMBDA k : k # id),
              !.lockTag = [@ EXCEPT ![id] = None],
              !.safeMoveTokens = @ \cup {id}]

\* A release that accounts for the effect whether the lock was marked as
\* triggered or not.
allowMovementOn_Always(w, id) ==
    LET lockData == w.lockedTokens[id]
        t == lockData.trapToken
        newUses == lockData.trapData.currentUses - 1
        max == lockData.trapData.maxUses
        n1 == UpdateNotes(w.gmnotes[t], newUses, max, "null")
        n2 == IF newUses <= 0 THEN UpdateNotes(n1, 0, max, "off") ELSE n1
        a2 == IF newUses <= 0 THEN "DISARMED"
              ELSE UpdateAura(n1, w.aura[t], newUses, "null", triggersEnabled)
    IN  IF ~lockData.locked THEN w
        ELSE [gmnotes |-> IF lockData.locked
                          THEN [w.gmnotes EXCEPT ![t] = n2] ELSE w.gmnotes,
              aura |-> IF lockData.locked
                       THEN [w.aura EXCEPT ![t] = a2] ELSE w.aura,
              lockedTokens |-> [w.lockedTokens EXCEPT ![id] = NoLock],
              lockOrder |-> SelectSeq(w.lockOrder, LAMBDA k : k # id),
              lockTag |-> [w.lockTag EXCEPT ![id] = None],
              safeMoveTokens |-> w.safeMoveTokens \cup {id}]

\* allowMovement(tokenId) as a function of the state it works on.
allowMovementOn(w, id) ==
    LET lockData == w.lockedTokens[id]
        t == lockData.trapToken
        newUses == lockData.trapData.currentUses - 1
        max == lockData.trapData.maxUses
        n1 == UpdateNotes(w.gmnotes[t], newUses, max, "null")
        n2 == IF newUses <= 0 THEN UpdateNotes(n1, 0, max, "off") ELSE n1
        a2 == IF newUses <= 0 THEN "DISARMED"
              ELSE UpdateAura(n1, w.aura[t], newUses, "null", triggersEnabled)
    IN  IF ~lockData.locked THEN w
        ELSE [gmnotes |-> IF lockData.macroTriggered
                          THEN [w.gmnotes EXCEPT ![t] = n2] ELSE w.gmnotes,
              aura |-> IF lockData.macroTriggered
                       THEN [w.aura EXCEPT ![t] = a2] ELSE w.aura,
              lockedTokens |-> [w.lockedTokens EXCEPT ![id] = NoLock],
              lockOrder |-> SelectSeq(w.lockOrder, LAMBDA k : k # id),
              lockTag |-> [w.lockTag EXCEPT ![id] = None],
              safeMoveTokens |-> w.safeMoveTokens \cup {id}]

SetWorld(w) ==
    /\ gmnotes' = w.gmnotes
    /\ aura' = w.aura
    /\ lockedTokens' = w.lockedTokens
    /\ lockOrder' = w.lockOrder
    /\ lockTag' = w.lockTag
    /\ safeMoveTokens' = w.safeMoveTokens

\* !trapsystem allowmovement <token>
allowMovement(id) ==
    /\ SetWorld(allowMovementOn(World, id))
    /\ last' = Did("allowMovement", id, lockedTokens[id].locked, None)
    /\ UNCHANGED <<pos, triggersEnabled, timers,
                   checkVars, statusmarkers>>

RECURSIVE allowEach(_, _)
allowEach(w, ids) ==
    IF ids = <<>> THEN w
    ELSE allowEach(allowMovementOn(w, Head(ids)), Tail(ids))

\* !trapsystem allowall
allowAllMovement ==
    /\ lockOrder # <<>>
    /\ SetWorld(allowEach(World, lockOrder))
    /\ last' = Did("allowAllMovement", None, TRUE, None)
    /\ UNCHANGED <<pos, triggersEnabled, timers,
                   checkVars, statusmarkers>>

\* !trapsystem marktriggered <token> <trap> <macro>
markTriggered(id) ==
    /\ lockedTokens[id].locked
    /\ lockedTokens' = [lockedTokens EXCEPT ![id].macroTriggered = TRUE]
    /\ last' = Did("markTriggered", id, TRUE, None)
    /\ UNCHANGED <<gmnotes, aura, pos, lockOrder, lockTag, safeMoveTokens,
                   triggersEnabled, timers,
                   checkVars, statusmarkers>>


\* -------------------------------------------------------------- detector
\* Where a move from prev to np touches trap t: the path intersection is
\* tested first, then the direct overlap (contact at the token's centre).
Contact(t, prev, np) ==
    Only({IF i.hit THEN i
          ELSE IF checkGridOverlap(MoverTok(np), TrapTok(t))
          THEN Hit(np.x, np.y)
          ELSE NoPoint
          : i \in {checkLineIntersection(prev.x, prev.y, np.x, np.y,
                                         TrapTok(t))}})

\* The test of the scan loop that lets trap t be examined for contact; the
\* aura it reads is the one parseTrapNotes(notes, trapToken) has just set.
Scannable(t) ==
    LET data == parseTrapNotes(gmnotes[t])
    IN  /\ data.valid
        /\ data.currentUses > 0
        /\ ParseAura(gmnotes[t], aura[t], triggersEnabled) = "ARMED"
        /\ ~(data.type = "interaction" /\ ~data.movementTriggerEnabled)

\* The tokens with notes in the order the scan loop meets them.
TrapOrder == SelectSeq(TokenOrder, LAMBDA t : t \in DOMAIN gmnotes)

\* A scan that goes on to the end and takes the trap whose contact point
\* is nearest to the start of the path.
FirstTriggered_Nearest(prev, np) ==
    Only({IF hits = {} THEN 0
          ELSE CHOOSE k \in hits :
                  \A j \in hits :
                     LET ck == Contact(TrapOrder[k], prev, np)
                         cj == Contact(TrapOrder[j], prev, np)
                     IN  \/ Dist2(ck.x, ck.y, prev.x, prev.y)
                              < Dist2(cj.x, cj.y, prev.x, prev.y)
                         \/ /\ Dist2(ck.x, ck.y, prev.x, prev.y)
                                 = Dist2(cj.x, cj.y, prev.x, prev.y)
                            /\ k <= j
          : hits \in {{k \in 1..Len(TrapOrder) :
                          /\ Scannable(TrapOrder[k])
                          /\ Contact(TrapOrder[k], prev, np).hit}}})

\* The index in TrapOrder of the first trap the move triggers, or 0.
FirstTriggered(prev, np) ==
    Only({IF hits = {} THEN 0 ELSE CHOOSE k \in hits : \A j \in hits : k <= j
          : hits \in {{k \in 1..Len(TrapOrder) :
                          /\ Scannable(TrapOrder[k])
                          /\ Contact(TrapOrder[k], prev, np).hit}}})

\* handleTrapTrigger: the lock record it registers.  Of the trapData
\* snapshot only the two fields that are read again are kept.
LockRecord(t) ==
    LET data == parseTrapNotes(gmnotes[t])
    IN  [locked |-> TRUE, trapToken |-> t, macroTriggered |-> FALSE,
         trapData |-> [currentUses |-> data.currentUses,
                       maxUses |-> data.maxUses]]

\* The end of the scan loop for the trap t the move touches at c: the
\* token is put on the contact point, the relocation is scheduled, and
\* handleTrapTrigger locks the token if the trap is armed and has uses.
triggerAt(e, t, c, scanned) ==
    \E data \in {parseTrapNotes(gmnotes[t])} :
    \E lockIt \in {data.valid /\ data.isArmed /\ data.currentUses > 0} :
        /\ Len(SelectSeq(timers, LAMBDA x : x.tok = e)) < MaxTimers
        /\ pos' = [pos EXCEPT ![e] = Pt(c.x, c.y)]
        /\ timers' = Append(timers,
                            [tok |-> e, to |-> calculateTrapPosition(e, t, c)])
        /\ aura' = [x \in DOMAIN aura |->
                      IF x \in scanned
                      THEN ParseAura(gmnotes[x], aura[x], triggersEnabled)
                      ELSE aura[x]]
        /\ lockedTokens' = IF lockIt
                           THEN [lockedTokens EXCEPT ![e] = LockRecord(t)]
                           ELSE lockedTokens
        /\ lockOrder' = IF lockIt THEN Append(lockOrder, e) ELSE lockOrder
        /\ lockTag' = IF lockIt THEN [lockTag EXCEPT ![e] = t] ELSE lockTag
        /\ last' = Did("trigger", e, lockIt, None)
        /\ UNCHANGED <<gmnotes, safeMoveTokens, triggersEnabled, checkVars, statusmarkers>>

\* isTrap: the token's notes hold the marker.  A token without an entry
\* in gmnotes has empty notes.
isTrap(token) == token \in DOMAIN gmnotes /\ gmnotes[token].marker

\* The {ignoretraps} tag in a token's notes.
HasIgnoreTag(n) == "ignoretraps" \in DOMAIN n /\ n.ignoretraps

\* A detector that knows no immunity.
isTrapImmune_Never(token) == FALSE

\* isTrapImmune: the "blue" status marker and the {ignoretraps} tag, both.
isTrapImmune(token) ==
    /\ token \in DOMAIN statusmarkers /\ statusmarkers[token]
    /\ token \in DOMAIN gmnotes /\ HasIgnoreTag(gmnotes[token])

\* toggleIgnoreTraps: the tag is put in or taken out of the notes, and the
\* marker is put on or taken off the token, each by what it finds.
toggleIgnoreTraps(token) ==
    /\ gmnotes' = [gmnotes EXCEPT ![token] =
                     [f \in DOMAIN @ \cup {"ignoretraps"} |->
                        IF f = "ignoretraps" THEN ~HasIgnoreTag(@) ELSE @[f]]]
    /\ statusmarkers' = [statusmarkers EXCEPT ![token] = ~@]
    /\ last' = Did("toggleIgnoreTraps", token, TRUE, None)
    /\ UNCHANGED <<aura, pos, lockedTokens, lockOrder, lockTag,
                   safeMoveTokens, triggersEnabled, timers, checkVars>>

\* on("change:graphic") for a change of the status markers made by hand:
\* taking the "blue" marker off takes the tag out of the notes.
changeStatusmarkers(token, blue) ==
    /\ blue # statusmarkers[token]
    /\ statusmarkers' = [statusmarkers EXCEPT ![token] = blue]
    /\ gmnotes' = IF ~blue /\ HasIgnoreTag(gmnotes[token])
                  THEN [gmnotes EXCEPT ![token].ignoretraps = FALSE]
                  ELSE gmnotes
    /\ last' = Did("changeStatusmarkers", token, TRUE, None)
    /\ UNCHANGED <<aura, pos, lockedTokens, lockOrder, lockTag,
                   safeMoveTokens, triggersEnabled, timers, checkVars>>

\* on("change:graphic"): the token e was dragged from pos[e] to np.  The
\* tokens that are dragged are on the objects layer.
checkTrapTrigger(e, np) ==
    IF ~triggersEnabled \/ isTrap(e) \/ isTrapImmune(e)
    THEN /\ pos' = [pos EXCEPT ![e] = np]
         /\ last' = Did("move", e, FALSE, None)
         /\ UNCHANGED <<gmnotes, aura, lockedTokens, lockOrder, lockTag,
                        safeMoveTokens, triggersEnabled, timers, checkVars, statusmarkers>>
    ELSE IF e \in safeMoveTokens
    THEN /\ pos' = [pos EXCEPT ![e] = np]
         /\ safeMoveTokens' = safeMoveTokens \ {e}
         /\ last' = Did("safeMove", e, FALSE, None)
         /\ UNCHANGED <<gmnotes, aura, lockedTokens, lockOrder, lockTag,
                        triggersEnabled, timers, checkVars, statusmarkers>>
    ELSE IF 25 * Dist2(np.x, np.y, pos[e].x, pos[e].y)
              < DEFAULT_GRID_SIZE * DEFAULT_GRID_SIZE
    THEN /\ pos' = [pos EXCEPT ![e] = np]
         /\ last' = Did("move", e, FALSE, None)
         /\ UNCHANGED <<gmnotes, aura, lockedTokens, lockOrder, lockTag,
                        safeMoveTokens, triggersEnabled, timers, checkVars, statusmarkers>>
    ELSE \E k \in {FirstTriggered(pos[e], np)} :
         IF k = 0
         THEN /\ pos' = [pos EXCEPT ![e] = np]
              /\ aura' = [x \in DOMAIN aura |->
                            ParseAura(gmnotes[x], aura[x], triggersEnabled)]
              /\ last' = Did("move", e, FALSE, None)
              /\ UNCHANGED <<gmnotes, lockedTokens, lockOrder, lockTag,
                             safeMoveTokens, triggersEnabled, timers,
                             checkVars, statusmarkers>>
         ELSE \E c \in {Contact(TrapOrder[k], pos[e], np)},
                 scanned \in {{TrapOrder[j] : j \in 1..k}} :
                 triggerAt(e, TrapOrder[k], c, scanned)

\* An event handler without the freeze: every move goes to the detector.
Move_Advisory(e, np) ==
    /\ np # pos[e]
    /\ np.x = pos[e].x \/ np.y = pos[e].y
    /\ checkTrapTrigger(e, np)

\* The position-change event of token e: a locked token is put back.
Move(e, np) ==
    /\ np # pos[e]
    /\ np.x = pos[e].x \/ np.y = pos[e].y
    /\ IF lockedTokens[e].locked
       THEN /\ last' = Did("moveReverted", e, FALSE, None)
            /\ UNCHANGED <<coreVars, checkVars>>
       ELSE checkTrapTrigger(e, np)

\* The callback of setTimeout(..., 500): the second relocation step.
TimerFire ==
    /\ timers # <<>>
    /\ pos' = [pos EXCEPT ![Head(timers).tok] = Head(timers).to]
    /\ timers' = Tail(timers)
    /\ last' = Did("timerFire", Head(timers).tok, TRUE, None)
    /\ UNCHANGED <<gmnotes, aura, lockedTokens, lockOrder, lockTag,
                   safeMoveTokens, triggersEnabled,
                   checkVars, statusmarkers>>

\* ------------------------------------------------- skill-check pipeline
playerIsGM(p) == p = "gm"
controlledby(c) == IF c = "c1" THEN {"p1"} ELSE {"p1", "p2"}

\* A value is truthy unless it is undefined or null (ids are never empty).
Truthy(v) == v \notin {Undefined, Null}

\* JavaScript numbers and the two non-numbers that meet them here.
Num(v) == [k |-> "num", v |-> v]
NullV == [k |-> "null", v |-> 0]
UndefV == [k |-> "undefined", v |-> 0]
NaNV == [k |-> "NaN", v |-> 0]
\* ToNumber: null is 0, undefined is NaN.
ToNumber(a) == IF a.k = "null" THEN Num(0)
               ELSE IF a.k = "undefined" THEN NaNV ELSE a
\* a > b
GreaterEq_Strict(a, b) ==
    /\ ToNumber(a).k = "num" /\ ToNumber(b).k = "num"
    /\ ToNumber(a).v > ToNumber(b).v

\* a >= b: false whenever a side is NaN.
GreaterEq(a, b) ==
    LET x == ToNumber(a)
        y == ToNumber(b)
    IN  x.k = "num" /\ y.k = "num" /\ x.v >= y.v
\* The later of two values, whatever the earlier one was.
MathMax_Later(a, b) == ToNumber(b)

\* Math.max / Math.min of two values: NaN whenever a side is NaN.
MathMax(a, b) ==
    LET x == ToNumber(a)
        y == ToNumber(b)
    IN  IF x.k = "NaN" \/ y.k = "NaN" THEN NaNV ELSE Num(Max(x.v, y.v))
MathMin(a, b) ==
    LET x == ToNumber(a)
        y == ToNumber(b)
    IN  IF x.k = "NaN" \/ y.k = "NaN" THEN NaNV ELSE Num(Min(x.v, y.v))

\* normalizeType: lower case, a trailing " check" or " save" stripped.
normalizeType(str) ==
    CASE str \in {"Stealth", "Stealth Check"} -> "stealth"
      [] str \in {"Perception", "Perception Check"} -> "perception"
      [] str = "Flat Roll" -> "flat roll"
      [] OTHER -> ""

\* The part of a parsed descriptor a pending check carries as its config.
NoConfig == [currentUses |-> 0, maxUses |-> 0, success |-> None, failure |-> None]
ConfigOf(d) == [currentUses |-> d.currentUses, maxUses |-> d.maxUses,
                success |-> d.success, failure |-> d.failure]
NoCheckSpec == [type |-> Undefined, dc |-> UndefV]

\* A pending check object.  oid is its identity: two index entries are the
\* same object iff their oids are equal.  A field an object lacks reads
\* as undefined; hasConfig tells whether it has a config at all.
Object(oid, token, hasConfig, config, checkIndex, check, advantage, firstRoll, playerid, characterId) ==
    [present |-> TRUE, oid |-> oid, token |-> token, hasConfig |-> hasConfig,
     config |-> config, checkIndex |-> checkIndex, check |-> check,
     advantage |-> advantage, firstRoll |-> firstRoll,
     playerid |-> playerid, characterId |-> characterId]

\* The state the pipeline works on.
Checks == [P |-> pendingChecks, C |-> pendingChecksByChar,
           D |-> displayDCForCheck]

\* The index entries in a fixed order: the player index, then the
\* character index.
PlayerOrder == <<"gm", "p1", "p2", Undefined>>
Slots(cw) == [k \in 1..Len(PlayerOrder) |-> cw.P[PlayerOrder[k]]]
             \o [k \in 1..Len(CharOrder) |-> cw.C[CharOrder[k]]]

\* Identities are kept up to renaming: an object is numbered by the first
\* index entry that holds it.
Renumbered(slots, o) ==
    IF ~o.present THEN o
    ELSE [o EXCEPT !.oid =
            CHOOSE k \in 1..Len(slots) :
                /\ slots[k].present /\ slots[k].oid = o.oid
                /\ \A j \in 1..(k - 1) :
                      ~(slots[j].present /\ slots[j].oid = o.oid)]

SetChecks(cw) ==
    \E w \in {cw} : \E slots \in {Slots(w)} :
        /\ pendingChecks' = [p \in PlayerKeys |-> Renumbered(slots, w.P[p])]
        /\ pendingChecksByChar' = [c \in Characters |-> Renumbered(slots, w.C[c])]
        /\ displayDCForCheck' = w.D

\* The identity of a new object: the least one no index entry has.
FreshOid(cw) ==
    LET used == {cw.P[p].oid : p \in {q \in PlayerKeys : cw.P[q].present}}
                \cup {cw.C[c].oid : c \in {x \in Characters : cw.C[x].present}}
    IN  CHOOSE n \in 1..(Cardinality(used) + 1) :
            n \notin used /\ \A m \in 1..(n - 1) : m \in used

\* A write through a reference: every index entry that is the object oid
\* shows the new fields.
Mutate(cw, oid, field, value) ==
    [cw EXCEPT !.P = [p \in PlayerKeys |->
                        IF @[p].present /\ @[p].oid = oid
                        THEN [@[p] EXCEPT ![field] = value] ELSE @[p]],
               !.C = [c \in Characters |->
                        IF @[c].present /\ @[c].oid = oid
                        THEN [@[c] EXCEPT ![field] = value] ELSE @[c]]]

\* existingCheck.characterId where existingCheck is pendingChecks[p] || {}.
ExistingCharacterId(cw, p) ==
    IF cw.P[p].present THEN cw.P[p].characterId ELSE Undefined

\* a || null
OrNull(v) == IF Truthy(v) THEN v ELSE Null

\* pendingChecks[p] = obj, and pendingChecksByChar[obj.characterId] = obj
\* when the object names a character.
StoreBoth(cw, p, obj) ==
    [cw EXCEPT !.P = [@ EXCEPT ![p] = obj],
               !.C = IF Truthy(obj.characterId)
                     THEN [@ EXCEPT ![obj.characterId] = obj] ELSE @]

\* The check a command names in the descriptor: config.checks[checkIndex],
\* or the check of the player's pending object for checkIndex "custom".
\* found is FALSE where the code gets undefined (or fails on a pending
\* object that has no config).
NamedCheck(cw, config, checkIndex, p) ==
    IF checkIndex = "custom"
    THEN (IF cw.P[p].present /\ cw.P[p].hasConfig
          THEN [found |-> TRUE, check |-> cw.P[p].check]
          ELSE [found |-> FALSE, check |-> NoCheckSpec])
    ELSE (IF Len(config.checks) > 0
          THEN [found |-> TRUE,
                check |-> [type |-> config.checks[1].type,
                           dc |-> Num(config.checks[1].dc)]]
          ELSE [found |-> FALSE, check |-> NoCheckSpec])

\* handleSkillCheck for a trap with a valid descriptor.
handleSkillCheckOn(cw, t, checkIndex, p) ==
    LET config == parseTrapNotes(gmnotes[t])
        named == NamedCheck(cw, config, checkIndex, p)
        pendingCheck == Object(FreshOid(cw), t, TRUE, ConfigOf(config),
                               checkIndex, named.check, Null, NullV, p,
                               ExistingCharacterId(cw, p))
    IN  IF named.found THEN StoreBoth(cw, p, pendingCheck) ELSE cw

\* !trapsystem check <trap> <index> <player>
handleSkillCheck(t, checkIndex, p) ==
    /\ parseTrapNotes(gmnotes[t]).valid
    /\ SetChecks(handleSkillCheckOn(Checks, t, checkIndex, p))
    /\ aura' = [aura EXCEPT ![t] = ParseAura(gmnotes[t], @, triggersEnabled)]
    /\ last' = Did("handleSkillCheck", p,
                   NamedCheck(Checks, parseTrapNotes(gmnotes[t]),
                              checkIndex, p).found, None)
    /\ UNCHANGED <<gmnotes, pos, lockedTokens, lockOrder, lockTag,
                   safeMoveTokens, triggersEnabled, timers, statusmarkers>>

\* !trapsystem setcheck <trap> <type> <player>: the object it stores has no
\* advantage, firstRoll or playerid field and goes to the player index only.
handleSetCheck(t, checkType, p) ==
    LET config == parseTrapNotes(gmnotes[t])
        obj == Object(FreshOid(Checks), t, TRUE, ConfigOf(config), "custom",
                      [type |-> checkType, dc |-> NullV],
                      Undefined, UndefV, Undefined,
                      OrNull(ExistingCharacterId(Checks, p)))
    IN  /\ config.valid
        /\ SetChecks([Checks EXCEPT !.P = [@ EXCEPT ![p] = obj]])
        /\ aura' = [aura EXCEPT ![t] = ParseAura(gmnotes[t], @, triggersEnabled)]
        /\ last' = Did("handleSetCheck", p, TRUE, None)
        /\ UNCHANGED <<gmnotes, pos, lockedTokens, lockOrder, lockTag,
                       safeMoveTokens, triggersEnabled, timers, statusmarkers>>

\* !trapsystem setdc <trap> <dc> <player> <type>
handleSetDC(t, dc, p, checkType) ==
    LET config == parseTrapNotes(gmnotes[t])
        prev == ExistingCharacterId(Checks, p)
        obj == Object(FreshOid(Checks), t, TRUE, ConfigOf(config), "custom",
                      [type |-> checkType, dc |-> Num(dc)],
                      Null, NullV, p, OrNull(prev))
    IN  /\ config.valid
        /\ SetChecks([Checks EXCEPT
                         !.P = [@ EXCEPT ![p] = obj],
                         !.C = IF Truthy(prev) THEN [@ EXCEPT ![prev] = obj]
                               ELSE @])
        /\ aura' = [aura EXCEPT ![t] = ParseAura(gmnotes[t], @, triggersEnabled)]
        /\ last' = Did("handleSetDC", p, TRUE, None)
        /\ UNCHANGED <<gmnotes, pos, lockedTokens, lockOrder, lockTag,
                       safeMoveTokens, triggersEnabled, timers, statusmarkers>>

\* handleRollCheck for a trap with a valid descriptor.
handleRollCheckOn(cw, t, checkIndex, advantage, p) ==
    LET config == parseTrapNotes(gmnotes[t])
        named == NamedCheck(cw, config, checkIndex, p)
        pendingCheck == Object(FreshOid(cw), t, TRUE, ConfigOf(config),
                               checkIndex, named.check, advantage, NullV, p,
                               ExistingCharacterId(cw, p))
    IN  IF named.found THEN StoreBoth(cw, p, pendingCheck) ELSE cw

\* !trapsystem rollcheck <trap> <index> <advantage> <player>
handleRollCheck(t, checkIndex, advantage, p) ==
    /\ parseTrapNotes(gmnotes[t]).valid
    /\ SetChecks(handleRollCheckOn(Checks, t, checkIndex, advantage, p))
    /\ aura' = [aura EXCEPT ![t] = ParseAura(gmnotes[t], @, triggersEnabled)]
    /\ last' = Did("handleRollCheck", p,
                   NamedCheck(Checks, parseTrapNotes(gmnotes[t]),
                              checkIndex, p).found, None)
    /\ UNCHANGED <<gmnotes, pos, lockedTokens, lockOrder, lockTag,
                   safeMoveTokens, triggersEnabled, timers, statusmarkers>>

\* !trapsystem displaydc <trap> <index> <player>: the flag is set, then the
\* check menu is shown again by handleSkillCheck.
handleDisplayDC(t, checkIndex, p) ==
    LET cw == [Checks EXCEPT !.D = [@ EXCEPT ![p] = TRUE]]
        valid == parseTrapNotes(gmnotes[t]).valid
    IN  /\ SetChecks(IF valid THEN handleSkillCheckOn(cw, t, checkIndex, p)
                     ELSE cw)
        /\ aura' = [aura EXCEPT ![t] = ParseAura(gmnotes[t], @, triggersEnabled)]
        /\ last' = Did("handleDisplayDC", p, TRUE, None)
        /\ UNCHANGED <<gmnotes, pos, lockedTokens, lockOrder, lockTag,
                       safeMoveTokens, triggersEnabled, timers, statusmarkers>>

\* !trapsystem selectcharacter <trap> <character> <player>: the player's
\* pending object (a new empty one if there is none) is given the
\* character, and a copy of it with the trap as token goes to the
\* character index.
selectcharacter(t, c, p) ==
    LET cw1 == IF Checks.P[p].present THEN Checks
               ELSE [Checks EXCEPT !.P = [@ EXCEPT ![p] =
                        Object(FreshOid(Checks), Undefined, FALSE, NoConfig,
                               Undefined, NoCheckSpec, Undefined, UndefV,
                               Undefined, Undefined)]]
        cw2 == Mutate(cw1, cw1.P[p].oid, "characterId", c)
        copy == [cw2.P[p] EXCEPT !.oid = FreshOid(cw2), !.token = t]
    IN  /\ SetChecks([cw2 EXCEPT !.C = [@ EXCEPT ![c] = copy]])
        /\ last' = Did("selectcharacter", p, TRUE, None)
        /\ UNCHANGED coreVars

\* A roll as the chat handlers hand it to handleRollResult.
Roll(total, characterid, isAdvantageRoll, rolledSkillName) ==
    [total |-> total, characterid |-> characterid,
     isAdvantageRoll |-> isAdvantageRoll, rolledSkillName |-> rolledSkillName]

\* The characters a player controls that some non-GM player controls.
ControlledPlayerCharacters(p) ==
    {c \in Characters : /\ p \in controlledby(c)
                         /\ \E q \in controlledby(c) : ~playerIsGM(q)}

\* The lookup with the authorization of strategy 1 left out: whoever rolls
\* for a character gets the check indexed under it.
FindPending_Unauthorized(cw, roll, roller) ==
    LET c == roll.characterid
        s1 == IF Truthy(c) THEN cw.C[c] ELSE NoCheck
        potentialChecks == {x \in ControlledPlayerCharacters(roller) :
                              cw.C[x].present /\ cw.C[x].characterId = x}
        s2 == IF ~s1.present /\ ~Truthy(c) /\ Cardinality(potentialChecks) = 1
              THEN cw.C[CHOOSE x \in potentialChecks : TRUE] ELSE NoCheck
        s12 == IF s1.present THEN s1 ELSE s2
        s3 == IF s12.present THEN s12 ELSE cw.P[roller]
    IN  [pendingCheck |-> s3,
         characterid |->
            IF s2.present THEN s2.characterId
            ELSE IF ~s12.present /\ s3.present /\ Truthy(s3.characterId)
                    /\ ~Truthy(c)
            THEN s3.characterId ELSE c]

\* The three lookup strategies of handleRollResult: the pending check they
\* end with (NoCheck if none) and the character id the roll then carries.
FindPending(cw, roll, roller) ==
    LET c == roll.characterid
        byChar == IF Truthy(c) THEN cw.C[c] ELSE NoCheck
        authorized == \/ playerIsGM(roller)
                      \/ roller \in controlledby(c)
                      \/ roller = byChar.playerid
        s1 == IF byChar.present /\ authorized THEN byChar ELSE NoCheck
        potentialChecks == {x \in ControlledPlayerCharacters(roller) :
                              cw.C[x].present /\ cw.C[x].characterId = x}
        s2 == IF ~s1.present /\ ~Truthy(c) /\ Cardinality(potentialChecks) = 1
              THEN cw.C[CHOOSE x \in potentialChecks : TRUE] ELSE NoCheck
        s12 == IF s1.present THEN s1 ELSE s2
        s3 == IF s12.present THEN s12 ELSE cw.P[roller]
    IN  [pendingCheck |-> s3,
         characterid |->
            IF s2.present THEN s2.characterId
            ELSE IF ~s12.present /\ s3.present /\ Truthy(s3.characterId)
                    /\ ~Truthy(c)
            THEN s3.characterId ELSE c]

\* The skill matching without its two flat-roll branches: only two named
\* skills that differ are a mismatch.
Mismatch_NamedOnly(expectedTypeRaw, rolledSkillName) ==
    /\ Truthy(rolledSkillName)
    /\ normalizeType(expectedTypeRaw) # "flat roll"
    /\ normalizeType(expectedTypeRaw) # normalizeType(rolledSkillName)

\* The skill matching of handleRollResult.
Mismatch(expectedTypeRaw, rolledSkillName) ==
    LET isFlatRoll == ~Truthy(rolledSkillName)
        expectedType == normalizeType(expectedTypeRaw)
        expectsFlatRoll == expectedType = "flat roll"
    IN  \/ expectsFlatRoll /\ ~isFlatRoll
        \/ ~expectsFlatRoll /\ isFlatRoll
        \/ /\ ~expectsFlatRoll /\ ~isFlatRoll
           /\ expectedType # normalizeType(rolledSkillName)

\* A resolution that a failing macro cuts short: the result is announced,
\* and when the macro cannot be run nothing is written.
Resolve_MacroBlocks(w, pc, finalTotal, roller, char) ==
    LET success == GreaterEq(finalTotal, pc.check.dc)
        macro == IF success THEN pc.config.success ELSE pc.config.failure
        failed == macro # None /\ ~executeMacro(macro)
        newUses == Max(0, pc.config.currentUses - 1)
        t == pc.token
        n1 == DecrementNotes(w.gmnotes[t], pc.config.currentUses,
                             pc.config.maxUses)
    IN  [gmnotes |-> IF failed THEN w.gmnotes
                     ELSE [w.gmnotes EXCEPT ![t] = n1],
         aura |-> IF failed THEN w.aura
                  ELSE [w.aura EXCEPT ![t] =
                          IF newUses <= 0 THEN "DISARMED"
                          ELSE UpdateAura(n1, @, newUses, "on", triggersEnabled)],
         P |-> IF ~failed /\ w.P[pc.playerid].present
                  /\ w.P[pc.playerid].oid = pc.oid
               THEN [w.P EXCEPT ![pc.playerid] = NoCheck] ELSE w.P,
         C |-> IF ~failed /\ Truthy(pc.characterId)
               THEN [w.C EXCEPT ![pc.characterId] = NoCheck] ELSE w.C,
         D |-> IF failed THEN w.D ELSE [w.D EXCEPT ![roller] = FALSE],
         ran |-> IF macro # None /\ executeMacro(macro) THEN macro ELSE None,
         out |-> "resolved", char |-> char, res |-> [pc EXCEPT !.oid = 0],
         final |-> finalTotal]

\* The end of a resolution: the macro, the decrement from the uses the
\* pending check recorded when it was made, and the cleanup of the indexes.
Resolve(w, pc, finalTotal, roller, char) ==
    LET success == GreaterEq(finalTotal, pc.check.dc)
        macro == IF success THEN pc.config.success ELSE pc.config.failure
        newUses == Max(0, pc.config.currentUses - 1)
        t == pc.token
        n1 == DecrementNotes(w.gmnotes[t], pc.config.currentUses,
                             pc.config.maxUses)
    IN  [gmnotes |-> [w.gmnotes EXCEPT ![t] = n1],
         aura |-> [w.aura EXCEPT ![t] =
                     IF newUses <= 0 THEN "DISARMED"
                     ELSE UpdateAura(n1, @, newUses, "on", triggersEnabled)],
         P |-> IF w.P[pc.playerid].present /\ w.P[pc.playerid].oid = pc.oid
               THEN [w.P EXCEPT ![pc.playerid] = NoCheck] ELSE w.P,
         C |-> IF Truthy(pc.characterId)
               THEN [w.C EXCEPT ![pc.characterId] = NoCheck] ELSE w.C,
         D |-> [w.D EXCEPT ![roller] = FALSE],
         ran |-> IF macro # None /\ executeMacro(macro) THEN macro ELSE None,
         out |-> "resolved", char |-> char, res |-> [pc EXCEPT !.oid = 0],
         final |-> finalTotal]

\* The result menu of a manual roll names the roll type with
\* advantage.charAt(0) whenever the mode is not 'normal': for a check whose
\* mode is still null or undefined the call throws, and the handler's catch
\* ends it before the comparison with the DC.
charAtThrows_Never(advantage) == FALSE

charAtThrows(advantage) == advantage \in {Null, Undefined}

\* handleRollResult on w = [gmnotes, aura, P, C, D]: the state it leaves,
\* the macro it ran, how it ended, and the check it resolved (its identity
\* left out).
handleRollResultFor(w, roll, roller, pc, char) ==
    LET End(out) == [gmnotes |-> w.gmnotes, aura |-> w.aura,
                     P |-> w.P, C |-> w.C, D |-> w.D,
                     ran |-> None, out |-> out, char |-> char, res |-> NoCheck,
                     final |-> UndefV]
        first == [pc EXCEPT !.firstRoll = Num(roll.total)]
        w1 == Mutate(w, pc.oid, "firstRoll", Num(roll.total))
        finalTotal == IF pc.advantage # "normal"
                      THEN (IF pc.advantage = "advantage"
                            THEN MathMax(pc.firstRoll, Num(roll.total))
                            ELSE MathMin(pc.firstRoll, Num(roll.total)))
                      ELSE Num(roll.total)
    IN  IF ~pc.present THEN End("none")
        ELSE IF ~pc.hasConfig THEN End("error")
        ELSE IF Mismatch(pc.check.type, roll.rolledSkillName)
        THEN End("mismatch")
        ELSE IF Truthy(pc.characterId) /\ Truthy(char) /\ pc.characterId # char
        THEN End("ignored")
        ELSE IF roll.isAdvantageRoll
        THEN Resolve(w, pc, Num(roll.total), roller, char)
        ELSE IF pc.firstRoll = NullV
                /\ pc.advantage \in {"advantage", "disadvantage"}
        THEN [End("first") EXCEPT
                 !.C = IF Truthy(pc.characterId)
                       THEN [w1.C EXCEPT ![pc.characterId] = first] ELSE w1.C,
                 !.P = [w1.P EXCEPT ![pc.playerid] = first]]
        ELSE IF charAtThrows(pc.advantage)
        THEN End("error")
        ELSE Resolve(w, pc, finalTotal, roller, char)

handleRollResultOn(w, roll, roller) ==
    CHOOSE result \in {handleRollResultFor(w, roll, roller, found.pendingCheck, found.characterid) : found \in {FindPending(w, roll, roller)}} : TRUE

RollWorld == [gmnotes |-> gmnotes, aura |-> aura, P |-> pendingChecks,
              C |-> pendingChecksByChar, D |-> displayDCForCheck]

\* handleRollResult as a step: the state is set from what it leaves.
handleRollResult(roll, roller) ==
    \E w \in {RollWorld}, rl \in {roll} :
    \E r \in {handleRollResultOn(w, rl, roller)} :
        /\ gmnotes' = r.gmnotes
        /\ aura' = r.aura
        /\ SetChecks(r)
        /\ last' = DidRoll("handleRollResult", roller, r.ran, r.out,
                           roll.characterid, r.res, r.final)
        /\ UNCHANGED <<pos, lockedTokens, lockOrder, lockTag, safeMoveTokens,
                       triggersEnabled, timers, statusmarkers>>

\* on("chat:message") for a rollresult: a roll without a character id from
\* a player who controls exactly one character is given that character.
RollResult(roller, total, charIdFromRoll) ==
    LET mine == ControlledPlayerCharacters(roller)
        characterid ==
            IF Truthy(charIdFromRoll) THEN charIdFromRoll
            ELSE IF ~playerIsGM(roller) /\ Cardinality(mine) = 1
            THEN CHOOSE c \in mine : TRUE
            ELSE Undefined
    IN  handleRollResult(Roll(total, characterid, FALSE, Undefined), roller)

\* on("chat:message") for an advancedroll of a character sheet: dice are
\* the die results in the message, rollType its header class and title
\* its header title (Null if there is none); the message marks no
\* preferred die.  The message is dropped when neither index has an entry
\* for its character or player.
AdvancedRoll(roller, characterId, dice, rollType, title) ==
    LET total == IF Len(dice) >= 2 /\ rollType # Null
                 THEN (CASE rollType = "advantage" -> Max(dice[1], dice[2])
                         [] rollType = "disadvantage" -> Min(dice[1], dice[2])
                         [] OTHER -> dice[1])
                 ELSE dice[1]
    IN  /\ \/ Truthy(characterId) /\ pendingChecksByChar[characterId].present
           \/ pendingChecks[roller].present
        /\ handleRollResult(Roll(total, characterId, Len(dice) >= 2, title),
                            roller)

\* pendingChecksByChar[entityId] || pendingChecks[entityId]
MismatchedCheck(entityId) ==
    IF entityId \in Characters /\ pendingChecksByChar[entityId].present
    THEN pendingChecksByChar[entityId]
    ELSE IF entityId \in PlayerKeys THEN pendingChecks[entityId]
    ELSE NoCheck

\* !trapsystem resolvemismatch <entity> <trap> accept <total> <type> <adv>
resolvemismatchAccept(entityId, t, rollValue, isAdvantageRoll) ==
    LET pendingCheck == MismatchedCheck(entityId)
    IN  /\ pendingCheck.present
        /\ pendingCheck.hasConfig
        /\ handleRollResult(Roll(rollValue, pendingCheck.characterId,
                                 isAdvantageRoll, pendingCheck.check.type),
                            pendingCheck.playerid)

\* !trapsystem resolvemismatch <entity> <trap> reject: the roll prompt is
\* shown again by handleRollCheck.
resolvemismatchReject(entityId, t) ==
    LET pendingCheck == MismatchedCheck(entityId)
        checkIndex == IF Truthy(pendingCheck.checkIndex)
                      THEN pendingCheck.checkIndex ELSE "0"
        advantageType == IF Truthy(pendingCheck.advantage)
                         THEN pendingCheck.advantage ELSE "normal"
    IN  /\ pendingCheck.present
        /\ parseTrapNotes(gmnotes[t]).valid
        /\ SetChecks(handleRollCheckOn(Checks, t, checkIndex, advantageType,
                                       pendingCheck.playerid))
        /\ aura' = [aura EXCEPT ![t] = ParseAura(gmnotes[t], @, triggersEnabled)]
        /\ last' = Did("resolvemismatchReject", entityId, TRUE, None)
        /\ UNCHANGED <<gmnotes, pos, lockedTokens, lockOrder, lockTag,
                       safeMoveTokens, triggersEnabled, timers, statusmarkers>>

\* ------------------------------------------------------ descriptor text
\* The gmnotes as text: a sequence of lexemes, each a run of word
\* characters (a name, a number, a keyword), a blank, or one other
\* character.  The texts that are drawn hold no "%" and no "&", so that
\* decodeURIComponent and the entity replacements of parseTrapNotes leave
\* them as they are.
MaxNumber == 20
NonWord == {"{", "}", "[", "]", "(", ")", "\"", ",", ":", "/", "!", "-", " ", ""}
Digits == {ToString(n) : n \in 0..MaxNumber}
\* `${n}`
Number(n) == IF n < 0 THEN <<"-", ToString(-n)>> ELSE <<ToString(n)>>
\* parseInt(a, 10) of a run of lexemes: NaN unless it starts with digits.
parseInt(a) ==
    IF a # <<>> /\ a[1] \in Digits
    THEN Num(CHOOSE n \in 0..MaxNumber : ToString(n) = a[1])
    ELSE NaNV
\* toLowerCase of a word.
toLowerCase(a) ==
    CASE a = "Interaction" -> "interaction"
      [] a = "ON" -> "on"
      [] a = "Armed" -> "armed"
      [] a = "Center" -> "center"
      [] OTHER -> a

\* The lexeme at i; "" beyond the end of the text.
Get(s, i) == IF i \in 1..Len(s) THEN s[i] ELSE ""
\* The least element of a set of indexes, or dflt if there is none.
Least(js, dflt) == IF js = {} THEN dflt ELSE CHOOSE j \in js : \A k \in js : j <= k
\* The end of the longest run from i on of lexemes that are not in stop.
RunEnd(s, i, stop) ==
    Only({Least(js, Len(s) + 1) : js \in {{j \in i..Len(s) : s[j] \in stop}}})
\* string.includes(lit)
Includes(s, lit) ==
    \E i \in 1..Len(s) : \A k \in 1..Len(lit) : Get(s, i + k - 1) = lit[k]

\* The words inside which a regular expression that is not anchored finds
\* the keyword key; with the flag i the case of the letters does not count.
HasKey(a, key, ignoreCase) ==
    \/ a = key
    \/ key = "type" /\ a = "damagetype"
    \/ ignoreCase /\ toLowerCase(a) = key

\* The regular expressions of parseTrapNotes and updateTrapUses, element
\* by element: a keyword (key, keyI with the flag i), a literal lexeme,
\* \s* (blanks), a group that is a run of lexemes outside a set, and a
\* group that is one lexeme of a set.
Regex ==
    LET El(t, a, i, set) == [t |-> t, a |-> a, i |-> i, set |-> set]
        key(k) == El("key", k, FALSE, {})
        keyI(k) == El("key", k, TRUE, {})
        lit(a) == El("lit", a, FALSE, {})
        blanks == El("blanks", "", FALSE, {})
        run(stop) == El("run", "", FALSE, stop)
        oneOf(set) == El("in", "", FALSE, set)
        nameMacro(first, stop) ==
            <<first, lit(":"), blanks, lit("\""), run({"\""}), lit("\""),
              blanks, lit("Macro"), lit(":"), blanks, run(stop)>>
    IN  [uses |-> <<key("uses"), lit(":"), blanks, oneOf(Digits), lit("/"),
                    oneOf(Digits)>>,
         armed |-> <<keyI("armed"), lit(":"), blanks, oneOf({"on", "off", "ON"})>>,
         primary |-> <<key("primary"), lit(":"), blanks>>
                        \o nameMacro(lit("Name"), {" ", "]"}),
         options |-> <<key("options"), lit(":"), blanks, lit("["), run({"]"}),
                       lit("]")>>,
         option |-> nameMacro(key("Name"), {" "}),
         center |-> <<keyI("position"), lit(":"), blanks,
                      oneOf({"center", "Center"})>>,
         cell |-> <<keyI("position"), lit(":"), blanks, lit("("), blanks,
                    oneOf(Digits), blanks, lit(","), blanks, oneOf(Digits),
                    blanks, lit(")")>>,
         type |-> <<keyI("type"), lit(":"), blanks, run(NonWord)>>,
         checks |-> <<key("checks"), lit(":"), blanks, lit("\""), run({"\""}),
                      lit("\"")>>,
         success |-> <<key("success"), lit(":"), blanks, run(NonWord)>>,
         failure |-> <<key("failure"), lit(":"), blanks, run(NonWord)>>]

NoMatch == [ok |-> FALSE, from |-> 0, end |-> 0, caps |-> <<>>]

\* The match of the expression re at i with the groups captured so far.
\* None of the expressions needs backtracking: a run is always followed by
\* a lexeme it cannot hold.
RECURSIVE MatchFrom(_, _, _, _, _)
MatchFrom(s, from, i, re, caps) ==
    IF re = <<>> THEN [ok |-> TRUE, from |-> from, end |-> i, caps |-> caps]
    ELSE LET e == Head(re)
             a == Get(s, i)
         IN  CASE e.t = "key" ->
                    IF HasKey(a, e.a, e.i)
                    THEN MatchFrom(s, from, i + 1, Tail(re), caps) ELSE NoMatch
               [] e.t = "lit" ->
                    IF a = e.a
                    THEN MatchFrom(s, from, i + 1, Tail(re), caps) ELSE NoMatch
               [] e.t = "blanks" ->
                    MatchFrom(s, from,
                              Least({j \in i..Len(s) : s[j] # " "}, Len(s) + 1),
                              Tail(re), caps)
               [] e.t = "run" ->
                    Only({IF j > i
                          THEN MatchFrom(s, from, j, Tail(re),
                                         Append(caps, SubSeq(s, i, j - 1)))
                          ELSE NoMatch
                          : j \in {RunEnd(s, i, e.set)}})
               [] e.t = "in" ->
                    IF a \in e.set
                    THEN MatchFrom(s, from, i + 1, Tail(re), Append(caps, <<a>>))
                    ELSE NoMatch

\* string.match(re): the leftmost match.  Every expression starts with a
\* keyword, which tells where a match can start.
Match(s, re) ==
    Only({IF hits = {} THEN NoMatch
          ELSE CHOOSE m \in hits : \A x \in hits : m.from <= x.from
          : hits \in {{m \in {MatchFrom(s, i, i, re, <<>>)
                               : i \in {j \in 1..Len(s) :
                                          HasKey(s[j], re[1].a, re[1].i)}}
                        : m.ok}}})

\* string.match(/.../g): the matches from left to right, none overlapping.
RECURSIVE MatchAll(_, _)
MatchAll(s, re) ==
    Only({IF m.ok THEN <<m>> \o MatchAll(SubSeq(s, m.end, Len(s)), re) ELSE <<>>
          : m \in {Match(s, re)}})

\* string.split(sep)
RECURSIVE split(_, _)
split(s, sep) ==
    Only({IF j > Len(s) THEN <<s>>
          ELSE <<SubSeq(s, 1, j - 1)>> \o split(SubSeq(s, j + 1, Len(s)), sep)
          : j \in {RunEnd(s, 1, {sep})}})

\* The checks of checks: "..." : every entry with a skill and a DC.
parseChecks(str) ==
    LET trim(s) ==
           LET inside == {j \in 1..Len(s) : s[j] # " "}
           IN  IF inside = {} THEN <<>>
               ELSE SubSeq(s, Least(inside, 0),
                           CHOOSE j \in inside : \A k \in inside : k <= j)
        entries == split(trim(str), ",")
        parts == [k \in 1..Len(entries) |->
                    Only({[skill |-> IF Len(p) >= 1 THEN trim(p[1]) ELSE <<>>,
                           dc |-> IF Len(p) >= 2 THEN trim(p[2]) ELSE <<>>]
                          : p \in {split(entries[k], ":")}})]
        kept == SelectSeq(parts, LAMBDA e : e.skill # <<>> /\ e.dc # <<>>)
    IN  [k \in 1..Len(kept) |-> [type |-> kept[k].skill, dc |-> parseInt(kept[k].dc)]]

\* A parsed position: "center", a cell {x, y}, or null.
Position(kind, x, y) == [kind |-> kind, x |-> x, y |-> y]

\* parseTrapNotes on the decoded text, without its aura side effect.  A
\* name is the run of lexemes it is written with; null and "" are the
\* empty run (the code tests names for truthiness only).
parseTrapNotesText(decoded) ==
    LET usesM == Match(decoded, Regex.uses)
        armedM == Match(decoded, Regex.armed)
        pMatch == Match(decoded, Regex.primary)
        optMatch == Match(decoded, Regex.options)
        list == IF optMatch.ok THEN MatchAll(optMatch.caps[1], Regex.option)
                ELSE <<>>
        centerM == Match(decoded, Regex.center)
        cellM == Match(decoded, Regex.cell)
        typeM == Match(decoded, Regex.type)
        checksM == Match(decoded, Regex.checks)
        succM == Match(decoded, Regex.success)
        failM == Match(decoded, Regex.failure)
    IN  IF ~Includes(decoded, <<"!", "traptrigger">>) THEN NoData
        ELSE [valid |-> TRUE,
              currentUses |-> IF usesM.ok THEN parseInt(usesM.caps[1]).v ELSE 0,
              maxUses |-> IF usesM.ok THEN parseInt(usesM.caps[2]).v ELSE 0,
              isArmed |-> IF armedM.ok THEN toLowerCase(armedM.caps[1][1]) = "on"
                          ELSE TRUE,
              primary |-> IF pMatch.ok
                          THEN [name |-> pMatch.caps[1], macro |-> pMatch.caps[2]]
                          ELSE [name |-> <<"Primary">>, macro |-> <<>>],
              options |-> [k \in 1..Len(list) |->
                             [name |-> list[k].caps[1], macro |-> list[k].caps[2]]],
              position |->
                 IF centerM.ok /\ (~cellM.ok \/ centerM.from <= cellM.from)
                 THEN (IF centerM.caps[1] = <<"center">>
                       THEN Position("center", 0, 0) ELSE Position("null", 0, 0))
                 ELSE IF cellM.ok
                 THEN Position("cell", parseInt(cellM.caps[1]).v,
                               parseInt(cellM.caps[2]).v)
                 ELSE Position("null", 0, 0),
              type |-> IF typeM.ok THEN toLowerCase(typeM.caps[1][1])
                       ELSE "standard",
              checks |-> IF checksM.ok THEN parseChecks(checksM.caps[1]) ELSE <<>>,
              success |-> IF succM.ok THEN succM.caps[1] ELSE <<>>,
              failure |-> IF failM.ok THEN failM.caps[1] ELSE <<>>,
              movementTriggerEnabled |->
                 ~Includes(decoded, <<"{", "noMovementTrigger", "}">>)]

\* updateTrapUses: the text it writes.  newArmed is "on" (true), "off"
\* (false) or "null" (no override).
updateTrapUsesText(notes, current, max, newArmed) ==
    LET usesM == Match(notes, Regex.uses)
        uses == <<"uses", ":", " ">> \o Number(current) \o <<"/">> \o Number(max)
        updated == IF usesM.ok
                   THEN SubSeq(notes, 1, usesM.from - 1) \o uses
                           \o SubSeq(notes, usesM.end, Len(notes))
                   ELSE notes
        armedM == Match(updated, Regex.armed)
    IN  IF newArmed = "null" THEN updated
        ELSE IF \E i \in 1..Len(updated) :
                   HasKey(updated[i], "armed", FALSE) /\ Get(updated, i + 1) = ":"
        THEN (IF armedM.ok
              THEN SubSeq(updated, 1, armedM.from - 1)
                      \o <<"armed", ":", " ", newArmed>>
                      \o SubSeq(updated, armedM.end, Len(updated))
              ELSE updated)
        ELSE IF Get(updated, Len(updated)) = "}"
        THEN SubSeq(updated, 1, Len(updated) - 1)
                \o <<" ", "armed", ":", " ", newArmed, "}">>
        ELSE updated

\* setupTrap: the text it writes.  A macro that is not given is "None".
setupTrapText(maxUses, mainMacro, optionalMacro2, optionalMacro3, movement) ==
    LET option(m) == <<"Name", ":", " ", "\"">> \o m
                        \o <<"\"", " ", "Macro", ":", " ">> \o m
        has2 == optionalMacro2 # <<"None">>
        has3 == optionalMacro3 # <<"None">>
    IN  <<"{", "!", "traptrigger", " ", "uses", ":", " ">>
           \o Number(maxUses) \o <<"/">> \o Number(maxUses)
           \o <<" ", "armed", ":", " ", "on">>
           \o <<" ", "primary", ":", " ">> \o option(mainMacro)
           \o (IF has2 \/ has3
               THEN <<" ", "options", ":", " ", "[">>
                       \o (IF has2 THEN option(optionalMacro2) ELSE <<>>)
                       \o (IF has3
                           THEN (IF has2 THEN <<" ">> ELSE <<>>)
                                   \o option(optionalMacro3)
                           ELSE <<>>)
                       \o <<"]">>
               ELSE <<>>)
           \o (CASE movement = "Center" ->
                      <<" ", "position", ":", " ", "center">>
                 [] movement = "Grid" ->
                      <<" ", "position", ":", " ", "(", "0", ",", "0", ")">>
                 [] OTHER -> <<>>)
           \o <<"}">>

\* setupInteractionTrap: the text it writes for its checks (none, one or
\* two), each a skill and the DC parseInt gave.
setupInteractionTrapText(maxUses, successMacro, failureMacro, checks, movementTriggerEnabled) ==
    LET entry(k) == checks[k].type \o <<":">> \o Number(checks[k].dc)
        checksConfig == IF Len(checks) = 2 THEN entry(1) \o <<",">> \o entry(2)
                        ELSE entry(1)
    IN  <<"{", "!", "traptrigger", " ", "uses", ":", " ">>
           \o Number(maxUses) \o <<"/">> \o Number(maxUses)
           \o <<" ", "armed", ":", " ", "on", " ", "type", ":", " ",
                "interaction">>
           \o <<" ", "primary", ":", " ", "Name", ":", "\"">> \o failureMacro
           \o <<"\"", " ", "Macro", ":", " ">> \o failureMacro
           \o <<" ", "success", ":", " ">> \o successMacro
           \o <<" ", "failure", ":", " ">> \o failureMacro
           \o (IF Len(checks) > 0
               THEN <<" ", "checks", ":", " ", "\"">> \o checksConfig \o <<"\"">>
               ELSE <<>>)
           \o (IF ~movementTriggerEnabled
               THEN <<" ", "{", "noMovementTrigger", "}">> ELSE <<>>)
           \o <<"}">>

\* ------------------------------------------------------- specifications
SetupUses == 1..MaxUses
\* The placement policies set up here are intersection and center; the
\* grid-cell policy of calculateTrapPosition is not among the inputs.
SetupMovements == {"Intersection", "Center"}

Next ==
    \/ \E t \in Traps, u \in SetupUses, m \in SetupMovements : SetupTrap(t, u, m)
    \/ \E t \in Traps, u \in SetupUses, b \in BOOLEAN :
          SetupInteractionTrap(t, u, b)
    \/ \E t \in Traps : toggleTrap(t)
    \/ enableTriggers
    \/ disableTriggers
    \/ \E t \in Traps, m \in MacroNames : manualMacroTrigger(t, m)
    \/ \E t \in Traps, a \in {"trigger", "fail"} : handleInteraction(t, a)
    \/ \E t \in Traps : handleAllowAction(t)
    \/ \E e \in Movers : allowMovement(e)
    \/ allowAllMovement
    \/ \E e \in Movers : markTriggered(e)
    \/ \E e \in Movers, np \in Cells : Move(e, np)
    \/ TimerFire

Spec == Init /\ [][Next]_vars

\* The skill-check pipeline on an interaction trap with the check of its
\* descriptor: the inputs of the commands and of the two kinds of roll
\* message.
Requesters == {"p1"}
SelectChars == {"c1"}
Advantages == {"normal", "advantage"}
RollTotals == {14, 15}
RollChars == {"c1", Undefined}
DiceRolls == {<<14>>, <<15, 14>>}
RollTypes == {"advantage", Null}
Titles == {"Stealth Check", "Perception Check", Null}

NextChecks ==
    \/ \E t \in Traps : SetupInteractionTrap(t, MaxUses, TRUE)
    \/ \E t \in Traps, c \in SelectChars, p \in Requesters :
          selectcharacter(t, c, p)
    \/ \E t \in Traps, p \in Requesters : handleSkillCheck(t, "0", p)
    \/ \E t \in Traps, a \in Advantages, p \in Requesters :
          handleRollCheck(t, "0", a, p)
    \/ \E t \in Traps, p \in Requesters : handleDisplayDC(t, "0", p)
    \/ \E t \in Traps, p \in Requesters : handleSetCheck(t, "Stealth", p)
    \/ \E t \in Traps, p \in Requesters : handleSetDC(t, 15, p, "Stealth")
    \/ \E r \in Players, v \in RollTotals, c \in RollChars :
          RollResult(r, v, c)
    \/ \E r \in Players, c \in RollChars, d \in DiceRolls, y \in RollTypes,
          n \in Titles : AdvancedRoll(r, c, d, y, n)
    \/ \E x \in SelectChars \cup Requesters, t \in Traps, v \in RollTotals,
          b \in BOOLEAN : resolvemismatchAccept(x, t, v, b)
    \/ \E x \in SelectChars \cup Requesters, t \in Traps :
          resolvemismatchReject(x, t)

SpecChecks == Init /\ [][NextChecks]_vars

\* The roll side of the pipeline: a trap whose check is a named skill or a
\* flat roll, the three roll modes, and rolls of the requester with one
\* die or two.
CheckTypes == {"Stealth", "Flat Roll"}
Modes == {"normal", "advantage", "disadvantage"}
TwoDice == {<<14>>, <<14, 15>>}
Headers == {"advantage", "disadvantage", Null}

NextRolls ==
    \/ \E t \in Traps, y \in CheckTypes :
          setupInteractionTrap(t, MaxUses, y, 15, TRUE)
    \/ \E t \in Traps, c \in SelectChars, p \in Requesters :
          selectcharacter(t, c, p)
    \/ \E t \in Traps, p \in Requesters : handleSkillCheck(t, "0", p)
    \/ \E t \in Traps, a \in Modes, p \in Requesters :
          handleRollCheck(t, "0", a, p)
    \/ \E r \in Requesters, v \in RollTotals, c \in RollChars :
          RollResult(r, v, c)
    \/ \E r \in Requesters, c \in RollChars, d \in TwoDice, y \in Headers,
          n \in Titles : AdvancedRoll(r, c, d, y, n)
    \/ \E x \in SelectChars \cup Requesters, t \in Traps, v \in RollTotals,
          b \in BOOLEAN : resolvemismatchAccept(x, t, v, b)
    \/ \E x \in SelectChars \cup Requesters, t \in Traps :
          resolvemismatchReject(x, t)

SpecRolls == Init /\ [][NextRolls]_vars

\* Whose check a roll is matched to: two requesters, both characters (c1
\* is controlled by p1 alone, c2 by p1 and p2), a flat-roll check in
\* normal mode, and rolls of every player with and without a character.
NextIdentity ==
    \/ \E t \in Traps : setupInteractionTrap(t, MaxUses, "Flat Roll", 15, TRUE)
    \/ \E t \in Traps, c \in Characters, p \in {"p1", "p2"} :
          selectcharacter(t, c, p)
    \/ \E t \in Traps, p \in {"p1", "p2"} : handleRollCheck(t, "0", "normal", p)
    \/ \E r \in Players, c \in Characters \cup {Undefined} :
          RollResult(r, 15, c)
    \/ \E r \in Players, c \in Characters \cup {Undefined} :
          AdvancedRoll(r, c, <<15>>, Null, Null)

SpecIdentity == Init /\ [][NextIdentity]_vars

\* Resolutions on a trap whose descriptor names macros that exist no
\* longer: the trap was set up while they existed, and one or both were
\* deleted or emptied afterwards.
InitMacros ==
    /\ \E s \in {"MacroS", "Missing"}, f \in {"MacroF", "Missing"} :
          gmnotes = [t \in Traps |->
                       InteractionNotesWith(MaxUses, StealthCheck, TRUE, s, f)]
    /\ aura = [t \in Traps |-> "ARMED"]
    /\ pos = [e \in Movers |-> Pt(35, 175)]
    /\ lockedTokens = [e \in Movers |-> NoLock]
    /\ lockOrder = <<>>
    /\ lockTag = [e \in Movers |-> None]
    /\ safeMoveTokens = {}
    /\ triggersEnabled = TRUE
    /\ timers = <<>>
    /\ statusmarkers = [e \in Movers |-> FALSE]
    /\ pendingChecks = [p \in PlayerKeys |-> NoCheck]
    /\ pendingChecksByChar = [c \in Characters |-> NoCheck]
    /\ displayDCForCheck = [p \in PlayerKeys |-> FALSE]
    /\ last = NoLast

NextMacros ==
    \/ \E t \in Traps, c \in SelectChars, p \in Requesters :
          selectcharacter(t, c, p)
    \/ \E t \in Traps, a \in Advantages, p \in Requesters :
          handleRollCheck(t, "0", a, p)
    \/ \E t \in Traps, p \in Requesters : handleDisplayDC(t, "0", p)
    \/ \E r \in Players, v \in RollTotals, c \in RollChars :
          RollResult(r, v, c)
    \/ \E r \in Players, c \in RollChars, d \in DiceRolls, y \in RollTypes,
          n \in Titles : AdvancedRoll(r, c, d, y, n)

SpecMacros == InitMacros /\ [][NextMacros]_vars

\* The descriptor as text.  In the two specifications below gmnotes[t] is
\* the text of the token's notes (<<>> for a token without notes) where
\* the specifications above keep its fields; the names the commands draw
\* are macros that exist.
MacroTexts == {<<"MacroA">>, <<"Trap", "-", "Fire">>}
OptionTexts == {<<"None">>, <<"MacroB">>}
CheckTexts == {<<>>, <<[type |-> <<"Stealth">>, dc |-> 15]>>,
               <<[type |-> <<"Flat", " ", "Roll">>, dc |-> 10],
                 [type |-> <<"Stealth">>, dc |-> 15]>>}

\* The aura parseTrapNotes(notes, token) leaves on the token.
TextAura(notes, old, enabled) ==
    Only({IF d.valid THEN AuraFor(d.isArmed, d.currentUses, enabled) ELSE old
          : d \in {parseTrapNotesText(notes)}})

\* !trapsystem setup <uses> <main> <opt2> <opt3> <movement>
setupTrap(t, uses, mainMacro, optionalMacro2, optionalMacro3, movement) ==
    /\ uses >= 1
    /\ gmnotes' = [gmnotes EXCEPT ![t] =
                     setupTrapText(uses, mainMacro, optionalMacro2,
                                   optionalMacro3, movement)]
    /\ aura' = [aura EXCEPT ![t] = TextAura(gmnotes'[t], "ARMED", triggersEnabled)]
    /\ last' = Did("setupTrap", t, TRUE, None)
    /\ UNCHANGED <<pos, lockedTokens, lockOrder, lockTag, safeMoveTokens,
                   triggersEnabled, timers, checkVars, statusmarkers>>

\* !trapsystem setupinteraction <uses> <success> <failure> <checks> <move>
setupInteractionTrapChecks(t, uses, successMacro, failureMacro, checks, movementTriggerEnabled) ==
    /\ uses >= 1
    /\ gmnotes' = [gmnotes EXCEPT ![t] =
                     setupInteractionTrapText(uses, successMacro, failureMacro,
                                              checks, movementTriggerEnabled)]
    /\ aura' = [aura EXCEPT ![t] = TextAura(gmnotes'[t], "ARMED", triggersEnabled)]
    /\ last' = Did("setupInteractionTrap", t, TRUE, None)
    /\ UNCHANGED <<pos, lockedTokens, lockOrder, lockTag, safeMoveTokens,
                   triggersEnabled, timers, checkVars, statusmarkers>>

\* updateTrapUses(token, current, max, newArmed) on a token with notes.
updateTrapUses(t, current, max, newArmed) ==
    /\ gmnotes[t] # <<>>
    /\ \E updated \in {updateTrapUsesText(gmnotes[t], current, max, newArmed)} :
          /\ gmnotes' = [gmnotes EXCEPT ![t] = updated]
          /\ aura' = [aura EXCEPT ![t] =
                        AuraFor(IF newArmed = "null"
                                THEN Includes(updated, <<"armed", ":", " ", "on">>)
                                ELSE newArmed = "on",
                                current, triggersEnabled)]
    /\ last' = Did("updateTrapUses", t, TRUE, None)
    /\ UNCHANGED <<pos, lockedTokens, lockOrder, lockTag, safeMoveTokens,
                   triggersEnabled, timers, checkVars, statusmarkers>>

\* A toggle that refills the trap: arming with no uses left restores all
\* of them.
toggleTrapText_Refill(t) ==
    \E trapData \in {parseTrapNotesText(gmnotes[t])} :
       /\ trapData.valid
       /\ \E newArmedState \in {~trapData.isArmed} :
          \E newUses \in {IF newArmedState /\ trapData.currentUses <= 0
                          THEN trapData.maxUses ELSE trapData.currentUses} :
             /\ gmnotes' = [gmnotes EXCEPT ![t] =
                              updateTrapUsesText(@, newUses, trapData.maxUses,
                                                 IF newArmedState THEN "on"
                                                 ELSE "off")]
             /\ aura' = [aura EXCEPT ![t] =
                           AuraFor(newArmedState, newUses, triggersEnabled)]
       /\ last' = Did("toggleTrap", t, TRUE, None)
       /\ UNCHANGED <<pos, lockedTokens, lockOrder, lockTag, safeMoveTokens,
                      triggersEnabled, timers, checkVars, statusmarkers>>

\* !trapsystem toggle on the text.
toggleTrapText(t) ==
    \E trapData \in {parseTrapNotesText(gmnotes[t])} :
       /\ trapData.valid
       /\ \E newArmedState \in {~trapData.isArmed} :
          \E newUses \in {IF newArmedState /\ trapData.currentUses <= 0 THEN 1
                          ELSE trapData.currentUses} :
             /\ gmnotes' = [gmnotes EXCEPT ![t] =
                              updateTrapUsesText(@, newUses, trapData.maxUses,
                                                 IF newArmedState THEN "on"
                                                 ELSE "off")]
             /\ aura' = [aura EXCEPT ![t] =
                           AuraFor(newArmedState, newUses, triggersEnabled)]
       /\ last' = Did("toggleTrap", t, TRUE, None)
       /\ UNCHANGED <<pos, lockedTokens, lockOrder, lockTag, safeMoveTokens,
                      triggersEnabled, timers, checkVars, statusmarkers>>

\* The descriptors trap setup writes, toggled and updated as the handlers
\* update them: with the maximum of the descriptor and any number of uses
\* up to it.
InitSetup ==
    /\ gmnotes = [t \in Traps |-> <<>>]
    /\ aura = [t \in Traps |-> None]
    /\ pos = [e \in Movers |-> Pt(35, 175)]
    /\ lockedTokens = [e \in Movers |-> NoLock]
    /\ lockOrder = <<>>
    /\ lockTag = [e \in Movers |-> None]
    /\ safeMoveTokens = {}
    /\ triggersEnabled = TRUE
    /\ timers = <<>>
    /\ statusmarkers = [e \in Movers |-> FALSE]
    /\ pendingChecks = [p \in PlayerKeys |-> NoCheck]
    /\ pendingChecksByChar = [c \in Characters |-> NoCheck]
    /\ displayDCForCheck = [p \in PlayerKeys |-> FALSE]
    /\ last = NoLast

NextSetup ==
    \/ \E t \in Traps, u \in SetupUses, m \in MacroTexts,
          o2 \in OptionTexts, o3 \in OptionTexts,
          mv \in {"None", "Center", "Grid"} : setupTrap(t, u, m, o2, o3, mv)
    \/ \E t \in Traps, s \in MacroTexts, f \in MacroTexts,
          c \in CheckTexts, b \in BOOLEAN :
          setupInteractionTrapChecks(t, MaxUses, s, f, c, b)
    \/ \E t \in Traps : toggleTrapText(t)
    \/ \E t \in Traps, a \in {"on", "off", "null"} :
       \E d \in {parseTrapNotesText(gmnotes[t])} :
          /\ d.valid
          /\ \E c \in 0..d.maxUses : updateTrapUses(t, c, d.maxUses, a)

SpecSetup == InitSetup /\ [][NextSetup]_vars

\* Descriptors written by hand: one text with every field of the grammar
\* (none at its default) and the tag {ignoretraps}, and the same text with
\* one field left out ("missing"), left without a value ("empty") or, for
\* armed, written with a capital ("capital").
HandWritten ==
    LET value == [uses |-> <<"1", "/", "2">>,
                  armed |-> <<"off">>,
                  type |-> <<"interaction">>,
                  primary |-> <<"Name", ":", " ", "\"", "MacroA", "\"", " ",
                                "Macro", ":", " ", "MacroA">>,
                  options |-> <<"[", "Name", ":", " ", "\"", "MacroB", "\"",
                                " ", "Macro", ":", " ", "MacroB", "]">>,
                  position |-> <<"center">>,
                  success |-> <<"MacroA">>,
                  failure |-> <<"MacroB">>,
                  checks |-> <<"\"", "Stealth", ":", "15", "\"">>]
        written(g, how) ==
            CASE how = "missing" -> <<>>
              [] how = "empty" -> <<" ", g, ":">>
              [] how = "capital" -> <<" ", "Armed", ":", " ">> \o value[g]
              [] OTHER -> <<" ", g, ":", " ">> \o value[g]
        text(f, how) ==
            LET F(g) == written(g, IF g = f THEN how ELSE "whole")
            IN  <<"{", "!", "traptrigger">>
                   \o F("uses") \o F("armed") \o F("type") \o F("primary")
                   \o F("options") \o F("position") \o F("success")
                   \o F("failure") \o F("checks")
                   \o (IF f = "tag" /\ how = "missing" THEN <<>>
                       ELSE <<" ", "{", "noMovementTrigger", "}">>)
                   \o <<" ", "{", "ignoretraps", "}", "}">>
    IN  {[text |-> text(f, how), field |-> f, how |-> how] :
           f \in DOMAIN value, how \in {"whole", "missing", "empty"}}
        \cup {[text |-> text("tag", "missing"), field |-> "tag", how |-> "missing"],
              [text |-> text("armed", "capital"), field |-> "armed",
               how |-> "capital"]}

\* Tokens whose notes were written by hand, before any command.
InitNotes ==
    /\ gmnotes \in [Traps -> {h.text : h \in HandWritten}]
    /\ \E enabled \in {TRUE} :
          aura = [t \in Traps |-> TextAura(gmnotes[t], None, enabled)]
    /\ pos = [e \in Movers |-> Pt(35, 175)]
    /\ lockedTokens = [e \in Movers |-> NoLock]
    /\ lockOrder = <<>>
    /\ lockTag = [e \in Movers |-> None]
    /\ safeMoveTokens = {}
    /\ triggersEnabled = TRUE
    /\ timers = <<>>
    /\ statusmarkers = [e \in Movers |-> FALSE]
    /\ pendingChecks = [p \in PlayerKeys |-> NoCheck]
    /\ pendingChecksByChar = [c \in Characters |-> NoCheck]
    /\ displayDCForCheck = [p \in PlayerKeys |-> FALSE]
    /\ last = NoLast

SpecNotes == InitNotes /\ [][NextSetup]_vars

\* Traps in play: the token carries a descriptor already (an interaction
\* trap with a Stealth or a flat-roll check of DC 15, or a standard trap,
\* each with or without the {noMovementTrigger} tag, which the GM can
\* write into the notes of either kind), tokens are dragged over it, and
\* p2, who controls the one character c2, rolls without a sheet.
BareTotals == {12, 18}

InitField ==
    /\ gmnotes \in [Traps ->
          {InteractionNotes(u, <<[type |-> y, dc |-> 15]>>, b) :
              u \in SetupUses, y \in CheckTypes, b \in BOOLEAN}
          \cup {[StandardNotes(u, "None") EXCEPT !.noMove = b] :
                   u \in SetupUses, b \in BOOLEAN}]
    /\ aura = [t \in Traps |-> "ARMED"]
    /\ pos = [e \in Movers |-> Pt(35, 175)]
    /\ lockedTokens = [e \in Movers |-> NoLock]
    /\ lockOrder = <<>>
    /\ lockTag = [e \in Movers |-> None]
    /\ safeMoveTokens = {}
    /\ triggersEnabled = TRUE
    /\ timers = <<>>
    /\ statusmarkers = [e \in Movers |-> FALSE]
    /\ pendingChecks = [p \in PlayerKeys |-> NoCheck]
    /\ pendingChecksByChar = [c \in Characters |-> NoCheck]
    /\ displayDCForCheck = [p \in PlayerKeys |-> FALSE]
    /\ last = NoLast

NextField ==
    \/ \E t \in Traps : selectcharacter(t, "c2", "p2")
    \/ \E t \in Traps : handleRollCheck(t, "0", "normal", "p2")
    \/ \E v \in BareTotals : RollResult("p2", v, Undefined)
    \/ \E t \in Traps : toggleTrap(t)
    \/ \E e \in Movers : allowMovement(e)
    \/ \E e \in Movers : markTriggered(e)
    \/ \E e \in Movers, np \in Cells : Move(e, np)
    \/ TimerFire

SpecField == InitField /\ [][NextField]_vars

\* ------------------------------------------- tokens with notes of their own
\* A token that can be dragged and has notes of its own beside the trap:
\* it can be made a trap, be tagged {ignoretraps} and carry the marker.
InitTokens ==
    /\ gmnotes = [t \in {"t1", "e1"} |->
                    IF t = "t1" THEN StandardNotes(MaxUses, "None") ELSE NoNotes]
    /\ aura = [t \in {"t1", "e1"} |-> IF t = "t1" THEN "ARMED" ELSE None]
    /\ pos = [e \in Movers |-> Pt(35, 175)]
    /\ lockedTokens = [e \in Movers |-> NoLock]
    /\ lockOrder = <<>>
    /\ lockTag = [e \in Movers |-> None]
    /\ safeMoveTokens = {}
    /\ triggersEnabled = TRUE
    /\ timers = <<>>
    /\ statusmarkers \in [Movers -> BOOLEAN]
    /\ pendingChecks = [p \in PlayerKeys |-> NoCheck]
    /\ pendingChecksByChar = [c \in Characters |-> NoCheck]
    /\ displayDCForCheck = [p \in PlayerKeys |-> FALSE]
    /\ last = NoLast

NextTokens ==
    \/ \E t \in Movers, u \in SetupUses : SetupTrap(t, u, "None")
    \/ \E t \in Traps \cup Movers : toggleTrap(t)
    \/ \E e \in Movers : toggleIgnoreTraps(e)
    \/ \E e \in Movers, b \in BOOLEAN : changeStatusmarkers(e, b)
    \/ \E e \in Movers : allowMovement(e)
    \/ \E e \in Movers : markTriggered(e)
    \/ \E e \in Movers, np \in Cells : Move(e, np)
    \/ TimerFire

SpecTokens == InitTokens /\ [][NextTokens]_vars

\* ------------------------------------------------ the edge of the trap box
\* Where a token is dropped near the top left corner of the trap: its box
\* overlaps the trap's by a few pixels while its centre stays outside the
\* trap's widened rectangle.
EdgeCells == {Pt(x, y) : x \in 38..43, y \in {0, 70, 96}}

\* Pairs of boxes for checkGridOverlap: the dragged token at the trap's
\* corner, and a token of 250 x 250 against a trap of 301 x 301, whose
\* overlap comes to 4.99% of the token's box at (274, 37).
OverlapFirst ==
    {MoverTok(p) : p \in {c \in EdgeCells : c.y > 0}}
    \cup {[left |-> 274, top |-> y, width |-> 250, height |-> 250] : y \in 36..38}
OverlapSecond ==
    {[left |-> 140, top |-> 140, width |-> 140, height |-> 140],
     [left |-> 300, top |-> 300, width |-> 301, height |-> 301]}

\* Where a token is dropped at the left side of the trap's widened
\* rectangle, which runs along x = 63: outside it, on it and inside it.
BoundaryCells == {Pt(x, y) : x \in {35, 62, 63, 64}, y \in {105, 175}}

\* A call of checkLineIntersection for a path between two of those points.
IntersectionTest(start, end) ==
    /\ last' = Did("checkLineIntersection", <<start, end>>, FALSE,
                   checkLineIntersection(start.x, start.y, end.x, end.y,
                                         TrapTok("t1")))
    /\ UNCHANGED <<coreVars, checkVars>>

\* A call of checkGridOverlap(t1, t2) on two boxes.
OverlapTest(t1, t2) ==
    /\ last' = Did("checkGridOverlap", <<t1, t2>>, checkGridOverlap(t1, t2), None)
    /\ UNCHANGED <<coreVars, checkVars>>

InitEdge ==
    /\ gmnotes = [t \in Traps |-> StandardNotes(MaxUses, "None")]
    /\ aura = [t \in Traps |-> "ARMED"]
    /\ pos \in [Movers -> {c \in EdgeCells : c.y = 0} \cup {Pt(35, 175)}]
    /\ lockedTokens = [e \in Movers |-> NoLock]
    /\ lockOrder = <<>>
    /\ lockTag = [e \in Movers |-> None]
    /\ safeMoveTokens = {}
    /\ triggersEnabled = TRUE
    /\ timers = <<>>
    /\ statusmarkers = [e \in Movers |-> FALSE]
    /\ pendingChecks = [p \in PlayerKeys |-> NoCheck]
    /\ pendingChecksByChar = [c \in Characters |-> NoCheck]
    /\ displayDCForCheck = [p \in PlayerKeys |-> FALSE]
    /\ last = NoLast

NextEdge ==
    \/ \E t1 \in OverlapFirst, t2 \in OverlapSecond : OverlapTest(t1, t2)
    \/ \E start \in BoundaryCells, end \in BoundaryCells :
          IntersectionTest(start, end)
    \/ \E e \in Movers, np \in EdgeCells \cup BoundaryCells : Move(e, np)
    \/ \E e \in Movers : allowMovement(e)
    \/ TimerFire

SpecEdge == InitEdge /\ [][NextEdge]_vars

\* ------------------------------------------------- a crowded centre cell
\* Tokens already locked by the trap and at rest on its centre cell and on
\* the 8 cells around it: the k-th of them rests on the k-th of these cells.
OthersOrder == <<"o1", "o2", "o3", "o4", "o5", "o6", "o7", "o8", "o9">>
RestCells ==
    << Pt(175, 175), Pt(105, 105), Pt(105, 175), Pt(105, 245), Pt(175, 105),
       Pt(175, 245), Pt(245, 105), Pt(245, 175), Pt(245, 245) >>

\* The trap has the center policy; any of the nine tokens may be there.
InitRing ==
    \E there \in SUBSET (1..Len(OthersOrder)) :
       \E tokens \in {Movers \cup {OthersOrder[k] : k \in there}} :
       \E rest \in {[o \in {OthersOrder[k] : k \in there} |->
                       RestCells[CHOOSE k \in there : OthersOrder[k] = o]]} :
          /\ gmnotes = [t \in Traps |-> StandardNotes(MaxUses, "Center")]
          /\ aura = [t \in Traps |-> "ARMED"]
          /\ pos = [e \in tokens |->
                      IF e \in Movers THEN Pt(35, 175) ELSE rest[e]]
          /\ lockedTokens = [e \in tokens |->
                               IF e \in Movers THEN NoLock
                               ELSE [locked |-> TRUE, trapToken |-> "t1",
                                     macroTriggered |-> FALSE,
                                     trapData |-> [currentUses |-> MaxUses,
                                                   maxUses |-> MaxUses]]]
          /\ lockOrder = SelectSeq(OthersOrder, LAMBDA o : o \in tokens)
          /\ lockTag = [e \in tokens |-> IF e \in Movers THEN None ELSE "t1"]
          /\ safeMoveTokens = {}
          /\ triggersEnabled = TRUE
          /\ timers = <<>>
          /\ statusmarkers = [e \in tokens |-> FALSE]
          /\ pendingChecks = [p \in PlayerKeys |-> NoCheck]
          /\ pendingChecksByChar = [c \in Characters |-> NoCheck]
          /\ displayDCForCheck = [p \in PlayerKeys |-> FALSE]
          /\ last = NoLast

NextRing ==
    \/ \E e \in Movers, np \in Cells : Move(e, np)
    \/ \E e \in Movers : allowMovement(e)
    \/ TimerFire

SpecRing == InitRing /\ [][NextRing]_vars

\* --------------------------------------------------- two tokens, one trap
\* Two tokens that can be dragged onto the same trap, whose descriptor
\* names any of the three placement policies.
TwoMovers == {"e1", "e2"}

InitPlacement ==
    /\ gmnotes \in [Traps -> {StandardNotes(MaxUses, m) :
                                m \in {"None", "Center", "Grid"}}]
    /\ aura = [t \in Traps |-> "ARMED"]
    /\ pos = [e \in TwoMovers |-> Pt(35, 175)]
    /\ lockedTokens = [e \in TwoMovers |-> NoLock]
    /\ lockOrder = <<>>
    /\ lockTag = [e \in TwoMovers |-> None]
    /\ safeMoveTokens = {}
    /\ triggersEnabled = TRUE
    /\ timers = <<>>
    /\ statusmarkers = [e \in TwoMovers |-> FALSE]
    /\ pendingChecks = [p \in PlayerKeys |-> NoCheck]
    /\ pendingChecksByChar = [c \in Characters |-> NoCheck]
    /\ displayDCForCheck = [p \in PlayerKeys |-> FALSE]
    /\ last = NoLast

NextPlacement ==
    \/ \E e \in TwoMovers, np \in Cells : Move(e, np)
    \/ \E e \in TwoMovers : allowMovement(e)
    \/ TimerFire

SpecPlacement == InitPlacement /\ [][NextPlacement]_vars

\* ------------------------------------------------- two traps on one path
\* Two traps side by side and a token dragged along the row y = 175: left
\* of the first trap, on it, just right of it (its box still overlaps the
\* trap's by 5 pixels) and right of the second trap.
TwoTraps == {"t1", "t2"}
ScanCells == {Pt(35, 175), Pt(105, 175), Pt(240, 175), Pt(525, 175)}

InitScan ==
    /\ gmnotes = [t \in TwoTraps |-> StandardNotes(MaxUses, "None")]
    /\ aura = [t \in TwoTraps |-> "ARMED"]
    /\ pos = [e \in Movers |-> Pt(35, 175)]
    /\ lockedTokens = [e \in Movers |-> NoLock]
    /\ lockOrder = <<>>
    /\ lockTag = [e \in Movers |-> None]
    /\ safeMoveTokens = {}
    /\ triggersEnabled = TRUE
    /\ timers = <<>>
    /\ statusmarkers = [e \in Movers |-> FALSE]
    /\ pendingChecks = [p \in PlayerKeys |-> NoCheck]
    /\ pendingChecksByChar = [c \in Characters |-> NoCheck]
    /\ displayDCForCheck = [p \in PlayerKeys |-> FALSE]
    /\ last = NoLast

NextScan ==
    \/ \E t \in TwoTraps : toggleTrap(t)
    \/ \E e \in Movers, np \in ScanCells : Move(e, np)
    \/ \E e \in Movers : allowMovement(e)
    \/ \E e \in Movers : markTriggered(e)
    \/ TimerFire

SpecScan == InitScan /\ [][NextScan]_vars

\* ---------------------------------------------------------------- claims
Descriptor(t) == parseTrapNotes(gmnotes[t])
DescriptorAfter(t) == parseTrapNotes(gmnotes'[t])
Spent(d) == ~d.isArmed \/ d.currentUses <= 0
OnTrap(e, t) == checkGridOverlap(MoverTok(pos[e]), TrapTok(t))

\* C1: after every operation that writes a descriptor, the descriptor has
\* 0 <= currentUses <= maxUses, and currentUses = 0 implies it is disarmed.
\* Descriptors change only in those operations, so this is a state invariant.
C1_DescriptorInvariant ==
    \A t \in Traps :
        LET d == Descriptor(t)
        IN  d.valid => /\ 0 <= d.currentUses
                       /\ d.currentUses <= d.maxUses
                       /\ (d.currentUses = 0 => ~d.isArmed)

\* The part of C1 the code keeps: the uses stay within 0..maxUses.
C1_UsesInRange ==
    \A t \in Traps :
        LET d == Descriptor(t)
        IN  d.valid => 0 <= d.currentUses /\ d.currentUses <= d.maxUses

\* C2: a relocation callback that fires after the lock of its token was
\* released leaves every position as it is.
C2_TimerCancellable ==
    [][(TimerFire /\ ~lockedTokens[Head(timers).tok].locked) => pos' = pos]_vars

\* C3: allowMovement for a token that holds no lock changes neither a
\* descriptor (uses, armed flag), nor the lock registry, nor the SafeMoveSet.
C3_SecondReleaseNoOp ==
    [][\A e \in Movers :
          (allowMovement(e) /\ ~lockedTokens[e].locked)
          => UNCHANGED <<gmnotes, aura, lockedTokens, lockOrder, lockTag,
                         safeMoveTokens>>]_vars

\* A second allowMovement has run for a token released before.
C3_Witness ==
    /\ last.op = "allowMovement" /\ ~last.hit
    /\ last.id \in safeMoveTokens

\* C4: allowMovement of a locked token deletes its lock record; with the
\* record's macroTriggered flag set the trap's uses become exactly one less
\* than they were just before (disarmed at 0), and with the flag clear the
\* trap's uses and armed flag stay as they were.
C4_ReleaseDecrementsCurrent ==
    [][\A e \in Movers :
          (allowMovement(e) /\ lockedTokens[e].locked
             /\ Descriptor(lockedTokens[e].trapToken).currentUses > 0)
          => LET t == lockedTokens[e].trapToken
                 d == Descriptor(t)
                 n == DescriptorAfter(t)
             IN  /\ ~lockedTokens'[e].locked
                 /\ IF lockedTokens[e].macroTriggered
                    THEN /\ n.currentUses = d.currentUses - 1
                         /\ (n.currentUses = 0 => ~n.isArmed)
                    ELSE /\ n.currentUses = d.currentUses
                         /\ n.isArmed = d.isArmed]_vars

\* C5: a position change of a locked token is put back and changes nothing:
\* no position, no lock, no SafeMoveSet entry, no trap, no timer.
C5_HardFreeze ==
    [][\A e \in Movers, np \in Cells :
          (Move(e, np) /\ lockedTokens[e].locked) => UNCHANGED coreVars]_vars

\* A locked token was dragged and put back.
C5_Witness ==
    /\ last.op = "moveReverted"
    /\ lockedTokens[last.id].locked

\* C6: the first position change of a released token creates no lock and
\* takes the token out of the SafeMoveSet.
C6_OneFreeMove ==
    [][\A e \in Movers, np \in Cells :
          (Move(e, np) /\ e \in safeMoveTokens /\ ~lockedTokens[e].locked)
          => (~lockedTokens'[e].locked /\ e \notin safeMoveTokens')]_vars

\* C7: enableTriggers and disableTriggers leave every descriptor as it is,
\* and with the toggle off a position change creates no lock and changes no
\* trap.
C7_ToggleFrame ==
    [][/\ (enableTriggers \/ disableTriggers) => gmnotes' = gmnotes
       /\ \A e \in Movers, np \in Cells :
             (Move(e, np) /\ ~triggersEnabled)
             => UNCHANGED <<gmnotes, aura, lockedTokens, lockOrder, lockTag>>]_vars

\* With the toggle off a token was dropped on an armed trap.
C7_Witness ==
    /\ ~triggersEnabled
    /\ last.op = "move"
    /\ \E t \in Traps : /\ Descriptor(t).valid /\ ~Spent(Descriptor(t))
                         /\ OnTrap(last.id, t)

\* C8: a movement trigger, a manual macro trigger or an interaction
\* trigger/fail on a trap that is disarmed or has no uses runs no macro,
\* creates no lock on that trap and leaves its uses and armed flag alone.
C8_TriggerNeedsArmedAndUses ==
    [][\A t \in Traps :
          (/\ Descriptor(t).valid /\ Spent(Descriptor(t))
           /\ \/ \E e \in Movers, np \in Cells : Move(e, np)
              \/ \E m \in MacroNames : manualMacroTrigger(t, m)
              \/ \E a \in {"trigger", "fail"} : handleInteraction(t, a))
          => /\ last'.ran = None
             /\ DescriptorAfter(t).currentUses = Descriptor(t).currentUses
             /\ DescriptorAfter(t).isArmed = Descriptor(t).isArmed
             /\ \A e \in Movers :
                   (lockedTokens'[e].locked /\ lockedTokens'[e].trapToken = t)
                   => lockedTokens'[e] = lockedTokens[e]]_vars

\* x is a record of the pending check pc: the same request of the same
\* player for the same character, trap and check.
RecordOf(x, pc) ==
    /\ x.present /\ x.hasConfig
    /\ x.token = pc.token /\ x.check = pc.check
    /\ x.playerid = pc.playerid /\ x.characterId = pc.characterId

\* The step is a roll message of player r that names character c.
RollMessage(r, c) ==
    \/ \E v \in RollTotals : RollResult(r, v, c)
    \/ \E d \in DiceRolls, y \in RollTypes, n \in Titles :
          AdvancedRoll(r, c, d, y, n)

\* C9: a roll message that follows a resolution and comes from the same
\* player or names the same character is a no-op: it runs no macro, writes
\* no descriptor and changes neither index.
C9_LateRollNoOp ==
    [][\A r \in Players, c \in RollChars :
          (/\ last.op = "handleRollResult" /\ last.hit
           /\ r = last.id \/ (Truthy(c) /\ c = last.char)
           /\ RollMessage(r, c))
          => /\ last'.ran = None
             /\ UNCHANGED <<gmnotes, pendingChecks, pendingChecksByChar>>]_vars

\* C10: right after a roll has resolved a pending check, neither
\* pendingChecks under the check's player id nor pendingChecksByChar under
\* its character id holds a record of that check.
C10_RemovedFromBothIndexes ==
    (last.op = "handleRollResult" /\ last.hit)
    => /\ ~RecordOf(pendingChecks[last.res.playerid], last.res)
       /\ Truthy(last.res.characterId)
            => ~RecordOf(pendingChecksByChar[last.res.characterId], last.res)

\* The part of C10 the code keeps: the character index is cleaned.
C10_RemovedFromCharIndex ==
    (last.op = "handleRollResult" /\ last.hit /\ Truthy(last.res.characterId))
    => ~pendingChecksByChar[last.res.characterId].present

\* C11: a roll whose label is incompatible with the skill of the pending
\* check it is matched to (a bare roll against a named skill, a labelled
\* roll against a flat roll, two named skills that differ) never resolves
\* the check: the indexes (and so the stored first roll) and the
\* descriptor are unchanged and no macro runs.
C11_MismatchNeverResolves ==
    [][last'.op = "handleRollResult" =>
         LET Incompatible(expected, label) ==
                IF ~Truthy(label) THEN normalizeType(expected) # "flat roll"
                ELSE \/ normalizeType(expected) = "flat roll"
                     \/ normalizeType(expected) # normalizeType(label)
             Matched == FindPending(Checks, Roll(0, last'.char, FALSE, Undefined),
                                    last'.id).pendingCheck
         IN  \A pc \in {Matched} : \A n \in Titles \cup CheckTypes \cup {Undefined} :
                (/\ pc.present /\ pc.hasConfig
                 /\ Incompatible(pc.check.type, n)
                 /\ \E v \in RollTotals, b \in BOOLEAN :
                        handleRollResult(Roll(v, last'.char, b, n), last'.id))
                => /\ ~last'.hit /\ last'.ran = None
                   /\ UNCHANGED <<gmnotes, pendingChecks, pendingChecksByChar>>]_vars

\* A roll has been classified as a mismatch while the pending check holds
\* a first roll.
C11_Witness ==
    /\ last.op = "handleRollResult" /\ last.out = "mismatch"
    /\ pendingChecks["p1"].present /\ pendingChecks["p1"].firstRoll.k = "num"

\* C12: accepting a mismatch replays the value under the expected skill of
\* the pending check: whatever that skill is (named or flat roll) the
\* replay is not classified as a mismatch again, and a check in normal
\* mode is resolved, with success iff the value is at least the DC, and
\* is gone from both indexes.
C12_AcceptResolves ==
    [][\A x \in SelectChars \cup Requesters, t \in Traps, v \in RollTotals,
          b \in BOOLEAN :
          resolvemismatchAccept(x, t, v, b) =>
             \A pc \in {MismatchedCheck(x)} :
                /\ last'.out # "mismatch"
                /\ pc.advantage = "normal" =>
                      /\ last'.hit
                      /\ last'.ran = (IF GreaterEq(Num(v), pc.check.dc)
                                      THEN pc.config.success
                                      ELSE pc.config.failure)
                      /\ ~RecordOf(pendingChecks'[pc.playerid], pc)
                      /\ Truthy(pc.characterId) =>
                            ~RecordOf(pendingChecksByChar'[pc.characterId], pc)]_vars

\* C13: rejecting a mismatch leaves the pending check open under the same
\* player key and character key with the same expected skill, DC and
\* advantage mode and with no stored first roll, and leaves the trap's
\* descriptor (uses and armed flag) as it was.
C13_RejectReissues ==
    [][\A x \in SelectChars \cup Requesters, t \in Traps :
          (resolvemismatchReject(x, t) /\ MismatchedCheck(x).hasConfig) =>
             \A pc \in {MismatchedCheck(x)} :
             \A after \in {pendingChecks'[pc.playerid]}
                          \cup {pendingChecksByChar'[c] : c \in {pc.characterId} \cap Characters} :
                /\ after.present
                /\ after.check = pc.check
                /\ after.advantage = pc.advantage
                /\ after.firstRoll = NullV
                /\ UNCHANGED gmnotes]_vars

\* C14: a roll that names a character, from a player who is neither the
\* GM, nor a controller of the character, nor the requester of the check
\* indexed under it, leaves that check where it is, as it is, and leaves
\* the descriptor of its trap as it is.
C14_UnauthorizedRollIgnored ==
    [][\A c \in Characters : \A pc \in {pendingChecksByChar[c]} :
          (/\ last'.op = "handleRollResult" /\ last'.char = c
           /\ pc.present /\ pc.hasConfig
           /\ ~playerIsGM(last'.id)
           /\ last'.id \notin controlledby(c)
           /\ last'.id # pc.playerid)
          => /\ RecordOf(pendingChecksByChar'[c], pc)
             /\ pendingChecksByChar'[c].firstRoll = pc.firstRoll
             /\ gmnotes'[pc.token] = gmnotes[pc.token]]_vars

\* C15: a bare roll without a character id is matched to the pending
\* check of a character iff exactly one character the roller controls has
\* an entry of its own in the character index: with exactly one the roll
\* resolves that check, with none or several the roll neither resolves
\* nor removes any of those checks.
C15_UniqueCharacterMatch ==
    [][\A r \in Players :
          RollResult(r, 15, Undefined) =>
             \A open \in {{c \in Characters :
                             /\ r \in controlledby(c)
                             /\ pendingChecksByChar[c].present
                             /\ pendingChecksByChar[c].characterId = c}} :
             \A c \in open : \A pc \in {pendingChecksByChar[c]} :
                pc.hasConfig =>
                   IF Cardinality(open) = 1
                   THEN last'.hit /\ RecordOf(pc, last'.res)
                   ELSE /\ RecordOf(pendingChecksByChar'[c], pc)
                        /\ ~(last'.hit /\ RecordOf(pc, last'.res))]_vars

\* C16: a roll that none of the three lookups matches (no check under its
\* character that the roller may resolve, no single character of the
\* roller with a check of its own, no check under the roller's player id)
\* is dropped: both indexes, the reveal-DC flags, the lock registry and
\* every descriptor are unchanged and no macro runs.
C16_UnmatchedRollDropped ==
    [][\A r \in {last'.id} : \A c \in {last'.char} :
          (/\ last'.op = "handleRollResult"
           /\ ~(/\ c \in Characters /\ pendingChecksByChar[c].present
                /\ \/ playerIsGM(r)
                   \/ r \in controlledby(c)
                   \/ r = pendingChecksByChar[c].playerid)
           /\ \/ c \in Characters
              \/ Cardinality({x \in Characters :
                                /\ r \in controlledby(x)
                                /\ pendingChecksByChar[x].present
                                /\ pendingChecksByChar[x].characterId = x}) # 1
           /\ ~pendingChecks[r].present)
          => /\ last'.ran = None /\ ~last'.hit
             /\ UNCHANGED <<pendingChecks, pendingChecksByChar,
                            displayDCForCheck, lockedTokens, gmnotes>>]_vars

\* A roll for character c1 from p2, who may not resolve the check open
\* under c1 and has none of their own, has been dropped.
C16_Witness ==
    /\ last.op = "handleRollResult" /\ last.out = "none"
    /\ last.id = "p2" /\ last.char = "c1"
    /\ pendingChecksByChar["c1"].present /\ pendingChecksByChar["c1"].hasConfig
    /\ displayDCForCheck["p1"]

\* C17: a pending check in advantage or disadvantage mode takes two
\* separate single-value rolls: the first is stored as its first roll
\* without resolving (the check stays open, the descriptor is unchanged,
\* no macro runs), the second resolves it with the larger of the two under
\* advantage and the smaller under disadvantage.
C17_TwoManualRolls ==
    [][last'.op = "handleRollResult" /\ last'.out \in {"first", "resolved"} =>
         LET Matched == FindPending(Checks, Roll(0, last'.char, FALSE, Undefined),
                                    last'.id).pendingCheck
         IN  \A pc \in {Matched} : \A v \in RollTotals :
                (/\ pc.advantage \in {"advantage", "disadvantage"}
                 /\ \E n \in Titles \cup CheckTypes \cup {Undefined} :
                       handleRollResult(Roll(v, last'.char, FALSE, n), last'.id))
                => IF pc.firstRoll = NullV
                   THEN /\ last'.out = "first" /\ last'.ran = None
                        /\ UNCHANGED gmnotes
                        /\ RecordOf(pendingChecks'[pc.playerid], pc)
                        /\ pendingChecks'[pc.playerid].firstRoll = Num(v)
                        /\ pendingChecks'[pc.playerid].advantage = pc.advantage
                   ELSE /\ last'.hit
                        /\ last'.final = Num(IF pc.advantage = "advantage"
                                             THEN Max(pc.firstRoll.v, v)
                                             ELSE Min(pc.firstRoll.v, v))]_vars

\* An advantage check has been resolved by a first roll of 14 and a
\* second of 15, with 15 as the final roll.
C17_Witness ==
    /\ last.op = "handleRollResult" /\ last.hit
    /\ last.res.advantage = "advantage"
    /\ last.res.firstRoll = Num(14) /\ last.final = Num(15)

\* C18: when one sheet roll carries two dice and resolves a pending check,
\* the final roll compared with the DC is the larger die if the check's
\* mode is advantage, the smaller if it is disadvantage, and one of the
\* two in normal mode.
C18_TwoDiceByCheckMode ==
    [][\A r \in Requesters, c \in RollChars, y \in Headers, n \in Titles :
       \A d \in {x \in TwoDice : Len(x) = 2} :
          (AdvancedRoll(r, c, d, y, n) /\ last'.hit) =>
             CASE last'.res.advantage = "advantage" ->
                     last'.final = Num(Max(d[1], d[2]))
               [] last'.res.advantage = "disadvantage" ->
                     last'.final = Num(Min(d[1], d[2]))
               [] last'.res.advantage = "normal" ->
                     last'.final \in {Num(d[1]), Num(d[2])}
               [] OTHER -> TRUE]_vars

\* C19: whenever a roll has resolved a pending check, the one macro that
\* ran is the success macro of the check if the final roll was at least
\* its DC and its failure macro otherwise.
C19_SuccessIffFinalAtLeastDC ==
    (last.op = "handleRollResult" /\ last.hit)
    => /\ last.final.k = "num" /\ last.res.check.dc.k = "num"
       /\ last.ran = (IF last.final.v >= last.res.check.dc.v
                      THEN last.res.config.success
                      ELSE last.res.config.failure)

\* A check has been resolved as a success by a final roll equal to its DC.
C19_Witness ==
    /\ last.op = "handleRollResult" /\ last.hit
    /\ last.final = last.res.check.dc
    /\ last.ran = last.res.config.success /\ last.ran # None

\* C20: every resolution of a pending check leaves the uses in the trap's
\* descriptor exactly one below what the descriptor held just before the
\* resolution (0 stays 0), and a descriptor that reaches 0 is disarmed.
C20_ResolutionDecrementsPersisted ==
    [][(last'.op = "handleRollResult" /\ last'.hit) =>
          \A t \in {last'.res.token} :
             /\ DescriptorAfter(t).currentUses
                   = Max(0, Descriptor(t).currentUses - 1)
             /\ DescriptorAfter(t).currentUses = 0
                   => ~DescriptorAfter(t).isArmed]_vars

\* C21: right after a roll has resolved a pending check, the reveal-DC
\* flag stored under the player id of the check's requester is clear,
\* whichever player submitted the roll.
C21_RevealFlagOfRequesterCleared ==
    (last.op = "handleRollResult" /\ last.hit /\ last.res.playerid \in Players)
    => ~displayDCForCheck[last.res.playerid]

C24_UpdateWritesOnlyTargetedFields ==
    [][\A t \in Traps :
          \A d \in {parseTrapNotesText(gmnotes[t])} :
          \A n \in {parseTrapNotesText(gmnotes'[t])} :
          \A a \in {"on", "off", "null"} :
          \A c \in 0..(MaxUses + 1) :
             (/\ d.valid
              /\ \/ /\ last'.op = "updateTrapUses"
                    /\ c <= d.maxUses
                    /\ updateTrapUses(t, c, d.maxUses, a)
                 \/ /\ last'.op = "toggleTrap" /\ last'.id = t
                    /\ a = (IF d.isArmed THEN "off" ELSE "on")
                    /\ c = (IF a = "on" /\ d.currentUses <= 0 THEN 1
                            ELSE d.currentUses))
             => /\ n = [d EXCEPT !.currentUses = c,
                                 !.isArmed = IF a = "null" THEN d.isArmed
                                             ELSE a = "on"]
                /\ \A tag \in {"noMovementTrigger", "ignoretraps"} :
                      Includes(gmnotes'[t], <<"{", tag, "}">>)
                         = Includes(gmnotes[t], <<"{", tag, "}">>)]_vars

\* C25: round trip.  For every descriptor written by setupTrap or
\* setupInteractionTrap from its arguments, parsing the persisted text
\* gives the descriptor back field by field: uses N/N, armed, the primary
\* action's name and reference, the options, the placement policy, the
\* kind, the checks, success, failure and the movement-trigger flag.
C25_SetupRoundTrip ==
    \A t \in Traps :
       /\ last.op = "setupTrap" /\ last.id = t =>
             \A u \in SetupUses, m \in MacroTexts, o2 \in OptionTexts,
                o3 \in OptionTexts, mv \in {"None", "Center", "Grid"} :
                gmnotes[t] = setupTrapText(u, m, o2, o3, mv) =>
                   parseTrapNotesText(gmnotes[t]) =
                      [valid |-> TRUE, currentUses |-> u, maxUses |-> u,
                       isArmed |-> TRUE,
                       primary |-> [name |-> m, macro |-> m],
                       options |->
                          SelectSeq(<<[name |-> o2, macro |-> o2],
                                      [name |-> o3, macro |-> o3]>>,
                                    LAMBDA o : o.name # <<"None">>),
                       position |-> CASE mv = "Center" -> Position("center", 0, 0)
                                      [] mv = "Grid" -> Position("cell", 0, 0)
                                      [] OTHER -> Position("null", 0, 0),
                       type |-> "standard", checks |-> <<>>,
                       success |-> <<>>, failure |-> <<>>,
                       movementTriggerEnabled |-> TRUE]
       /\ last.op = "setupInteractionTrap" /\ last.id = t =>
             \A s \in MacroTexts, f \in MacroTexts, c \in CheckTexts,
                b \in BOOLEAN :
                gmnotes[t] = setupInteractionTrapText(MaxUses, s, f, c, b) =>
                   parseTrapNotesText(gmnotes[t]) =
                      [valid |-> TRUE, currentUses |-> MaxUses,
                       maxUses |-> MaxUses, isArmed |-> TRUE,
                       primary |-> [name |-> f, macro |-> f],
                       options |-> <<>>,
                       position |-> Position("null", 0, 0),
                       type |-> "interaction",
                       checks |-> [k \in 1..Len(c) |->
                                     [type |-> c[k].type, dc |-> Num(c[k].dc)]],
                       success |-> s, failure |-> f,
                       movementTriggerEnabled |-> b]

\* C26: parsing is field-independent.  For a text with the trap marker,
\* a field that is missing or has no proper value takes its default (uses
\* 0/0, armed on, kind standard, primary "Primary" without reference, no
\* options, no placement policy, no checks, no success or failure action,
\* movement trigger enabled) and every other field parses as it does in
\* the text that has the field; the parse never answers "not a trap".
C26_FieldsParseIndependently ==
    \A t \in Traps : \A h \in HandWritten :
       (gmnotes[t] = h.text /\ h.how \in {"missing", "empty"}) =>
          \A whole \in {parseTrapNotesText((CHOOSE w \in HandWritten :
                                               w.how = "whole").text)} :
          \A default \in {parseTrapNotesText(<<"{", "!", "traptrigger", "}">>)} :
          \A d \in {parseTrapNotesText(gmnotes[t])} :
             /\ d.valid
             /\ \A k \in DOMAIN whole :
                   d[k] = IF \/ k = h.field
                             \/ h.field = "uses" /\ k \in {"currentUses", "maxUses"}
                             \/ h.field = "armed" /\ k = "isArmed"
                             \/ h.field = "tag" /\ k = "movementTriggerEnabled"
                          THEN default[k] ELSE whole[k]

C29_NoLockOnSpentTrap ==
    [][\A t \in Traps :
          /\ \A e \in Movers :
                (/\ lockedTokens'[e].locked
                 /\ lockedTokens'[e] # lockedTokens[e]
                 /\ lockedTokens'[e].trapToken = t
                 /\ ~lockedTokens[e].locked)
                => \A d \in {parseTrapNotes(gmnotes[t])} :
                      d.valid /\ d.isArmed /\ d.currentUses > 0
          /\ (/\ last'.op = "handleRollResult" /\ last'.hit
              /\ last'.res.token = t
              /\ gmnotes'[t].cur = 0)
             => /\ gmnotes'[t].armed = "off"
                /\ aura'[t] = "DISARMED"]_vars

\* A token has been dragged onto a trap that a resolution left without
\* uses and disarmed: the detector examined the move and locked nothing.
C29_Witness ==
    /\ last.op = "move" /\ ~last.hit
    /\ \E e \in Movers :
          /\ pos[e] = Pt(105, 175) /\ ~lockedTokens[e].locked
          /\ e \notin safeMoveTokens
    /\ \E t \in Traps :
          /\ gmnotes[t].type = "interaction" /\ ~gmnotes[t].noMove
          /\ gmnotes[t].cur = 0 /\ gmnotes[t].armed = "off"
          /\ aura[t] = "DISARMED"
    /\ timers = <<>>

\* C30: a trap whose descriptor carries the {noMovementTrigger} tag is
\* never triggered by movement: no position change creates a lock against
\* it, whatever its other fields and its kind, standard or interaction.
C30_TaggedTrapNeverLocks ==
    [][\A e \in Movers : \A t \in Traps :
          (/\ last'.op = "trigger" /\ last'.id = e
           /\ lockedTokens'[e].locked /\ ~lockedTokens[e].locked
           /\ lockedTokens'[e].trapToken = t)
          => parseTrapNotes(gmnotes[t]).movementTriggerEnabled]_vars

\* C31: a position change of a token that is itself a trap, or that is
\* immune (the "blue" marker and the {ignoretraps} tag), creates no lock
\* and changes no token's notes.
C31_TrapOrImmuneMoveIsInert ==
    [][\A e \in Movers :
          (/\ \/ gmnotes[e].marker
              \/ statusmarkers[e] /\ HasIgnoreTag(gmnotes[e])
           /\ last'.op \in {"move", "safeMove", "trigger", "moveReverted"}
           /\ last'.id = e)
          => /\ lockedTokens' = lockedTokens
             /\ lockOrder' = lockOrder
             /\ gmnotes' = gmnotes]_vars

\* An immune token that is no trap has been dragged onto the armed
\* trap with triggers enabled and no free move in hand.
C31_Witness ==
    /\ last.op = "move" /\ last.id = "e1"
    /\ pos["e1"] = Pt(105, 175)
    /\ triggersEnabled /\ "e1" \notin safeMoveTokens
    /\ statusmarkers["e1"] /\ HasIgnoreTag(gmnotes["e1"])
    /\ ~gmnotes["e1"].marker
    /\ Scannable("t1")

\* C32: direct-overlap detection triggers iff the area common to the moved
\* token's box and the trap's box is at least 5% of the moved token's own
\* box: checkGridOverlap answers so on every pair of boxes, and a move of
\* at least the minimum length whose path misses the trap locks the token
\* against an armed trap iff its box overlaps the trap's by that much.
\* Lengths are counted in half pixels, areas in quarter pixels.
C32_OverlapThreshold ==
    [][LET Common(a, b, lo, hi) ==
               Cardinality(((2 * a[lo] - a[hi])..(2 * a[lo] + a[hi] - 1))
                           \cap ((2 * b[lo] - b[hi])..(2 * b[lo] + b[hi] - 1)))
           AtLeast5(a, b) ==
               100 * Common(a, b, "left", "width")
                   * Common(a, b, "top", "height")
                   >= 5 * 4 * a.width * a.height
       IN  /\ last'.op = "checkGridOverlap"
                 => (last'.hit <=> AtLeast5(last'.id[1], last'.id[2]))
           /\ \A e \in Movers :
                (/\ last'.op \in {"move", "trigger"} /\ last'.id = e
                 /\ ~lockedTokens[e].locked
                 /\ triggersEnabled /\ e \notin safeMoveTokens
                 /\ Scannable("t1")
                 /\ 25 * Dist2(pos'[e].x, pos'[e].y, pos[e].x, pos[e].y)
                      >= DEFAULT_GRID_SIZE * DEFAULT_GRID_SIZE
                 /\ ~checkLineIntersection(pos[e].x, pos[e].y,
                                           pos'[e].x, pos'[e].y,
                                           TrapTok("t1")).hit)
                => (lockedTokens'[e].locked
                      <=> AtLeast5(MoverTok(pos'[e]), TrapTok("t1")))]_vars

\* The token has been dropped at (42, 70), where 7 x 35 of its 70 x 70
\* pixels lie on the trap, exactly 5%, and is locked.
C32_Witness ==
    /\ last.op = "trigger" /\ last.id = "e1"
    /\ lockedTokens["e1"].locked
    /\ pos["e1"] = Pt(42, 70)
    /\ timers # <<>>

\* C33: for a move of at least the minimum length, an end of the path that
\* lies exactly on a side of the trap's box widened by 5% of its smaller
\* dimension counts as inside.  checkLineIntersection returns the start if
\* the start is on a side, and the end if the end is on a side and the
\* start is outside the widened box; a free token that makes such a move
\* against an armed trap is locked and put on that point.
C33_BoundaryEndpointIsInside ==
    [][LET tok == TrapTok("t1")
           m == Min(tok.width, tok.height) \div 20
           L == tok.left - tok.width \div 2 - m
           R == tok.left + tok.width \div 2 + m
           T == tok.top - tok.height \div 2 - m
           B == tok.top + tok.height \div 2 + m
           Within(p) == L <= p.x /\ p.x <= R /\ T <= p.y /\ p.y <= B
           OnSide(p) == Within(p) /\ (p.x \in {L, R} \/ p.y \in {T, B})
           Long(p, q) == 25 * Dist2(p.x, p.y, q.x, q.y)
                           >= DEFAULT_GRID_SIZE * DEFAULT_GRID_SIZE
       IN  /\ last'.op = "checkLineIntersection"
                 => \E start \in {last'.id[1]}, end \in {last'.id[2]} :
                       /\ (Long(start, end) /\ OnSide(start))
                             => last'.ran = Hit(start.x, start.y)
                       /\ (Long(start, end) /\ OnSide(end) /\ ~Within(start))
                             => last'.ran = Hit(end.x, end.y)
           /\ \A e \in Movers :
                (/\ last'.op \in {"move", "trigger"} /\ last'.id = e
                 /\ ~lockedTokens[e].locked
                 /\ triggersEnabled /\ e \notin safeMoveTokens
                 /\ Scannable("t1"))
                => /\ (OnSide(pos[e]) /\ last'.op = "move")
                         => ~Long(pos[e], pos'[e])
                   /\ (OnSide(pos[e]) /\ last'.op = "trigger")
                         => lockedTokens'[e].locked /\ pos'[e] = pos[e]
                   /\ (OnSide(pos'[e]) /\ ~Within(pos[e])
                          /\ Long(pos[e], pos'[e]))
                         => last'.op = "trigger" /\ lockedTokens'[e].locked]_vars

\* The token is locked on the left side of the widened box, at (63, 105):
\* it was dragged onto the side, or stood on it and was dragged away.
C33_Witness ==
    /\ last.op = "trigger" /\ last.id = "e1"
    /\ lockedTokens["e1"].locked
    /\ pos["e1"] = Pt(63, 105)
    /\ timers # <<>>

\* C34: with the center policy and the trap's centre cell occupied by
\* another token locked by the trap, the cell the token is sent to is a
\* free cell of ring 1, the 8 cells around the centre: the first free one
\* in the order of the search, column by column and within a column row by
\* row; a cell of ring 2 is taken only when no cell of ring 1 is free.  The
\* relocation callback puts the token on that cell.
C34_CentreOccupiedTakesRing1 ==
    [][LET g == DEFAULT_GRID_SIZE
           centre == Pt(175, 175)
           CellAt(dx, dy) == Pt(centre.x + dx * g, centre.y + dy * g)
           Taken(e, c) ==
               \E o \in DOMAIN pos \ {e} :
                  /\ lockedTokens[o].locked /\ lockedTokens[o].trapToken = "t1"
                  /\ 4 * Dist2(pos[o].x, pos[o].y, c.x, c.y) < g * g
           Ring1 == {d \in (-1..1) \X (-1..1) : d # <<0, 0>>}
           Free(e) == {d \in Ring1 : ~Taken(e, CellAt(d[1], d[2]))}
           Before(a, b) == a[1] < b[1] \/ (a[1] = b[1] /\ a[2] < b[2])
       IN  /\ \A e \in Movers :
                (/\ last'.op = "trigger" /\ last'.id = e
                 /\ Taken(e, centre))
                => \E to \in {timers'[Len(timers')].to} :
                      IF Free(e) # {}
                      THEN \E d \in Free(e) :
                              /\ to = CellAt(d[1], d[2])
                              /\ \A c \in Free(e) : ~Before(c, d)
                      ELSE \E dx, dy \in -2..2 :
                              /\ Abs(dx) = 2 \/ Abs(dy) = 2
                              /\ to = CellAt(dx, dy)
           /\ last'.op = "timerFire"
                 => pos'[Head(timers).tok] = Head(timers).to]_vars

\* The centre cell and the first cell of ring 1 are taken: the token has
\* been moved to the second cell of ring 1, left of the centre.
C34_Witness ==
    /\ last.op = "timerFire" /\ last.id = "e1"
    /\ lockedTokens["e1"].locked
    /\ pos["e1"] = Pt(105, 175)
    /\ DOMAIN pos = {"e1", "o1", "o2"}

\* C35: no two tokens locked by the same trap at the same time are at rest
\* (no relocation callback pending) within half a grid cell of each other.
\* With two tokens a free cell exists under every policy.
C35_NoTwoAtRestTogether ==
    \A a \in DOMAIN pos, b \in DOMAIN pos :
       (/\ a # b
        /\ timers = <<>>
        /\ lockedTokens[a].locked /\ lockedTokens[b].locked
        /\ lockedTokens[a].trapToken = lockedTokens[b].trapToken)
       => 4 * Dist2(pos[a].x, pos[a].y, pos[b].x, pos[b].y)
             >= DEFAULT_GRID_SIZE * DEFAULT_GRID_SIZE

\* C36: one position-change event creates at most one lock and schedules
\* at most one relocation; the trap that locks the token is the first one
\* in candidate order that is armed with uses and that the path or the
\* token's box touches, whichever trap the path meets first, and the token
\* is put on the path's point if the path touches that trap and on its own
\* centre otherwise.
C36_FirstQualifyingTrapOnly ==
    [][\A e \in Movers :
          (last'.op \in {"move", "trigger", "safeMove", "moveReverted"}
             /\ last'.id = e)
          => /\ Cardinality({m \in DOMAIN lockedTokens :
                               ~lockedTokens[m].locked
                               /\ lockedTokens'[m].locked}) <= 1
             /\ Len(timers') <= Len(timers) + 1
             /\ \A np \in ScanCells :
                  (last'.op = "trigger" /\ Move(e, np))
                  => LET Path(t) == checkLineIntersection(
                                       pos[e].x, pos[e].y, np.x, np.y, TrapTok(t))
                         Qualifies(t) ==
                             /\ Scannable(t)
                             /\ \/ Path(t).hit
                                \/ checkGridOverlap(MoverTok(np), TrapTok(t))
                         first == IF Qualifies("t1") THEN "t1" ELSE "t2"
                     IN  /\ Qualifies(first)
                         /\ lockedTokens'[e].locked
                         /\ lockedTokens'[e].trapToken = first
                         /\ pos'[e] = IF Path(first).hit
                                      THEN Pt(Path(first).x, Path(first).y)
                                      ELSE np]_vars

\* Dragged from right of the second trap to just right of the first, the
\* token crossed the second trap, armed and with uses, and is locked by
\* the first, which only its box touches.
C36_Witness ==
    /\ last.op = "trigger" /\ last.id = "e1"
    /\ lockedTokens["e1"].locked /\ lockedTokens["e1"].trapToken = "t1"
    /\ pos["e1"] = Pt(240, 175)
    /\ Scannable("t2")

\* C37: the two indexes of pending checks agree.  Every record stored in
\* the per-character index under character c names c as its character;
\* and when the check a requester has open names character c, the entry
\* of c in the per-character index is the same check: same trap, skill,
\* DC, advantage mode and first roll.
C37_IndexesConsistent ==
    /\ \A c \in Characters :
          pendingChecksByChar[c].present
             => pendingChecksByChar[c].characterId = c
    /\ \A p \in PlayerKeys, c \in Characters :
          (/\ pendingChecks[p].present /\ pendingChecks[p].hasConfig
           /\ pendingChecks[p].characterId = c)
          => /\ pendingChecksByChar[c].present
             /\ pendingChecksByChar[c].token = pendingChecks[p].token
             /\ pendingChecksByChar[c].check = pendingChecks[p].check
             /\ pendingChecksByChar[c].advantage = pendingChecks[p].advantage
             /\ pendingChecksByChar[c].firstRoll = pendingChecks[p].firstRoll

\* C38: the value a resolution compares with the DC is a roll that was
\* submitted: a number, and one of the totals and dice the rolls of the
\* conversation carry.
C38_FinalIsASubmittedRoll ==
    last.out = "resolved"
       => /\ last.final.k = "num"
          /\ last.final.v \in RollTotals
                \cup UNION {{d[i] : i \in DOMAIN d} : d \in DiceRolls}

\* C38 witness: a check whose mode was never chosen has been resolved by a
\* roll of two dice, with one of the two as the final value.
C38_Witness ==
    /\ last.out = "resolved"
    /\ last.res.advantage = Null
    /\ last.final.k = "num"
    /\ last.final.v \in {14, 15}

\* C39: only toggleTrap and the two setups arm a trap: no other step takes
\* a trap's persisted armed state from off to on.
C39_OnlyToggleArms ==
    [][\A t \in DOMAIN gmnotes :
          (/\ parseTrapNotes(gmnotes[t]).valid
           /\ ~parseTrapNotes(gmnotes[t]).isArmed
           /\ parseTrapNotes(gmnotes'[t]).valid
           /\ parseTrapNotes(gmnotes'[t]).isArmed)
          => last'.op \in {"toggleTrap", "setupTrap", "setupInteractionTrap"}
      ]_vars

\* C40: a trap's persisted uses never go up, except when toggleTrap arms a
\* trap that has none (it gets 1) and when the trap is set up anew.
C40_UsesNeverIncrease ==
    [][\A t \in DOMAIN gmnotes :
          (/\ parseTrapNotes(gmnotes[t]).valid
           /\ parseTrapNotes(gmnotes'[t]).valid
           /\ parseTrapNotes(gmnotes'[t]).currentUses
                 > parseTrapNotes(gmnotes[t]).currentUses)
          => \/ last'.op \in {"setupTrap", "setupInteractionTrap"}
             \/ /\ last'.op = "toggleTrap"
                /\ parseTrapNotes(gmnotes[t]).currentUses <= 0
                /\ parseTrapNotes(gmnotes'[t]).currentUses = 1
      ]_vars

====
